---- MODULE Spec2Model ----
(***************************************************************************)
(* Queue / playback engine of the music cog (src/musicnowerror.py).        *)
(*                                                                         *)
(* The cog runs on one cooperative event loop.  A coroutine runs without   *)
(* interleaving from one suspension to the next, so one action of this     *)
(* module is one such run of a handler: from its entry (or from the await  *)
(* it was suspended in) up to the next await after which it touches the    *)
(* shared maps again.  Awaits that are followed by no access to the shared *)
(* maps, and consecutive awaits with no access in between, are folded into *)
(* the step that precedes them.  The voice client (discord.py) and the     *)
(* resolver (yt_dlp) are external: the resolver's answers are drawn        *)
(* nondeterministically, the voice client is the small state machine       *)
(* vc / playing.                                                           *)
(*                                                                         *)
(* Handlers are written as operators on a store record S (the cog's maps   *)
(* and the voice clients) and a task record tk (the coroutine's locals),   *)
(* returning the store and the task at the coroutine's next suspension.    *)
(***************************************************************************)
EXTENDS Integers, Sequences, FiniteSets, TLC

\* ---------------------------------------------------------------- values

Refs == {"a", "b"}          \* track references (canonical URLs)
NoRef == "-"                \* info.get('webpage_url') or info.get('url') gave nothing
NoSrc == <<>>               \* the voice client plays nothing
NoOut == [kind |-> "none"]  \* no reply yet
NoOld == [kind |-> "none"]  \* the older engine is not run
AltMessages == {"X1", "X2"} \* titles reported by the alternative-source search
GuildIds == {1}             \* guilds of the main specification
AllGuilds == {1, 2}         \* guilds the bot is a member of

max_retries == 3            \* play_next: max_retries = 3
preload_count == 2          \* preload_next_tracks(guild_id, count=2)

MaxPlays == 2               \* play commands that reach the resolver and do not fail
Tasks == {1, 2}             \* command / callback / play_next coroutines in flight at once

\* messages sent to the text channel / interaction
MsgQueueFinished == <<"Queue finished!">>
MsgNowPlaying(title) == <<"Now playing: ", title>>
MsgFailedAfter == <<"Failed to play track after 3 attempts. Skipping...">>
MsgErrorPlaying == <<"Error playing song: ">>
MsgPlaybackError == <<"An error occurred during playback. Playing next song...">>
MsgNotPlaying == <<"Not playing any music!">>
MsgSkipped == <<"Skipped the current song">>
MsgNoSong == <<"No song is currently playing">>
MsgStopped == <<"Stopped playing and cleared the queue!">>
MsgProcessingLink == <<"Processing link... Searching for alternative source...">>
MsgAltOk(m) == <<"OK ", "Found alternative: ", m>>
MsgSearchingFor == <<"Searching for: ">>
MsgNoSongInfo == <<"Could not extract song information.">>
MsgDrmDetected == <<"DRM protection detected. Searching for alternative source...">>
MsgNoAlternative == <<"Could not find a playable alternative.">>
MsgResolverError(class) == <<"resolver error", class>>
MsgErrorLoading(text) == <<"Error loading content: ", text>>
MsgNoAudio == <<"Could not find any playable audio!">>
MsgNoTrack == <<"Could not process the track!">>
MsgTrackAdded(title) == <<"Track Added to Queue", title>>
MsgCommandError == <<"An error occurred: ">>
MsgNoMusicPlaying == <<"No music is currently playing!">>
MsgAlreadyPaused == <<"The music is already paused!">>
MsgPaused == <<"Paused the music!">>
MsgNotPaused == <<"The music is not paused!">>
MsgResumed == <<"Resumed the music!">>
MsgPlaylistAdded(n) == <<"Playlist Added to Queue", n, " songs">>
MsgNoPlayable == <<"No playable tracks found in playlist">>
MsgPlaylistError == <<"Error processing playlist: ">>

Title(r) == <<"title of", r>>   \* info.get('title') of the resolver's answer for r

VARIABLES
    queues,        \* self.queues: guild id -> list of references
    title_cache,   \* self.title_cache: the references that have metadata
    audio_cache,   \* self.audio_cache: reference -> entry (0: absent, n: the n-th entry made for it)
    vc,            \* guild.voice_client: "none" or "connected"
    playing,       \* the source the voice client is playing: <<ref, entry>> or NoSrc
    preloads,      \* background _preload_song tasks awaiting the resolver, per reference
    task,          \* the coroutines: play commands, playback callbacks, play_next
    appended,      \* history: per guild, every reference appended to its queue, in order
    removed,       \* history: per guild, every reference removed from its queue, in order
    cache_first,   \* the first key of the dict self.audio_cache (NoRef: the dict is empty)
    pending_playlists,  \* self.pending_playlists: guild id -> list of playlist queries
    paused,        \* per guild, whether the voice client's player is paused
    expanding,     \* per guild, the process_pending_playlists tasks not yet ended, in
                   \* the order of their creation: each with its position in the list
                   \* it iterates (0: created, not yet started) and that list
    out,           \* the last reply of a command that only answers
    old            \* the older engine (src/musicold.py) run side by side with this one:
                   \* its store, and the references each engine handed to its player

vars == <<queues, title_cache, audio_cache, vc, playing, preloads, task, appended, removed,
          cache_first, pending_playlists, paused, expanding, out, old>>

\* A coroutine: where it is suspended (pc), its guild, play_next's locals url,
\* cached_data (0: None, n: the n-th entry made for url) and retry_count, and the
\* callback's error.  History of the current play_next invocation: loads, the calls of
\* _preload_song it made; popped, the references its loop removed from the queue;
\* stale, whether /stop ran while it awaited the resolver.
IdleTask == [pc |-> "idle", g |-> 0, url |-> NoRef, cached_data |-> 0,
             retry_count |-> 0, err |-> FALSE,
             loads |-> 0, popped |-> <<>>, stale |-> FALSE]

\* ----------------------------------------------------------------- store

\* A store is the shared state a handler reads and writes, together with what the
\* handler puts out: sent, the messages it sends, in order; ret, how play_next
\* returned in it ("" if it did not); scheduled, the coroutines the player's
\* after-callback submits to the loop because of it; requested, the references it
\* created a background _preload_song task for, in order.
Store == [queues |-> queues, title_cache |-> title_cache, audio_cache |-> audio_cache,
          vc |-> vc, playing |-> playing, preloads |-> preloads,
          sent |-> <<>>, ret |-> "", scheduled |-> <<>>, requested |-> <<>>,
          appended |-> appended, removed |-> removed,
          cache_first |-> cache_first, pending_playlists |-> pending_playlists,
          paused |-> paused, expanding |-> expanding]

\* the shared state is that of store S
InstallStore(S) ==
    /\ queues' = S.queues
    /\ title_cache' = S.title_cache
    /\ audio_cache' = S.audio_cache
    /\ vc' = S.vc
    /\ playing' = S.playing
    /\ preloads' = S.preloads
    /\ appended' = S.appended
    /\ removed' = S.removed
    /\ cache_first' = S.cache_first
    /\ pending_playlists' = S.pending_playlists
    /\ paused' = S.paused
    /\ expanding' = S.expanding

Install(S) == InstallStore(S) /\ UNCHANGED <<out, old>>

\* store S and output o are what a step leaves
InstallOut(S, o) == InstallStore(S) /\ out' = o /\ UNCHANGED old

Result(S, tk) == [S |-> S, tk |-> tk]

send(S, m) == [S EXCEPT !.sent = Append(@, m)]

\* a faulty list_pop0: list.pop() in place of list.pop(0)
list_pop_last(q) == [item |-> q[Len(q)], rest |-> SubSeq(q, 1, Len(q) - 1)]

\* list.append(x) and list.pop(0) of the Python list that holds a guild's queue
list_append(q, x) == Append(q, x)
list_pop0(q) == [item |-> Head(q), rest |-> Tail(q)]

get_queue(S, g) ==
    IF g \in DOMAIN S.queues THEN S ELSE [S EXCEPT !.queues = (g :> <<>>) @@ @]

\* a faulty queue_append: one list that is the queue of every guild
queue_append_shared(S, g, r) ==
    LET S1 == get_queue(S, g)
    IN  [S1 EXCEPT !.queues = [h \in DOMAIN @ |-> list_append(@[h], r)],
                   !.appended[g] = Append(@, r)]

\* queue.append(url) on get_queue(g)
queue_append(S, g, r) ==
    LET S1 == get_queue(S, g)
    IN  [S1 EXCEPT !.queues[g] = list_append(@, r),
                   !.appended[g] = Append(@, r)]

\* queue.pop(0); the caller has checked that the queue is not empty
queue_pop0(S, g) ==
    LET p == list_pop0(S.queues[g])
    IN  [S EXCEPT !.queues[g] = p.rest, !.removed[g] = Append(@, p.item)]

\* a faulty queue_clear: /stop that leaves the queue as it is
queue_kept(S, g) == S

\* queue.clear()
queue_clear(S, g) ==
    [S EXCEPT !.queues[g] = <<>>, !.removed[g] = @ \o S.queues[g]]

VcPresent(S, g) == S.vc[g] # "none"
VcConnected(S, g) == S.vc[g] = "connected"
has_player(S, g) == S.playing[g] # NoSrc           \* the voice client has a player
is_playing(S, g) == has_player(S, g) /\ ~S.paused[g]
is_paused(S, g) == has_player(S, g) /\ S.paused[g]

\* --------------------------------------------------------------- preload

\* What the resolver and the stream construction give _preload_song:
\*   "noinfo"  extract_info raises or returns nothing
\*   "noaudio" info without a usable stream URL, or FFmpegPCMAudio raises
\*   "ok"      an audio source is built
PreloadOutcomes == {"noinfo", "noaudio", "ok"}

\* _preload_song after its await of the resolver: the caches it writes
preload_store(S, url, outcome) ==
    CASE outcome = "noinfo"  -> S
      [] outcome = "noaudio" -> [S EXCEPT !.title_cache = @ \cup {url}]
      [] outcome = "ok"      -> [S EXCEPT !.title_cache = @ \cup {url},
                                          !.audio_cache[url] = @ + 1,
                                          !.cache_first = IF @ = NoRef THEN url ELSE @]

\* ... and the entry it returns (0: None)
preload_entry(S, url, outcome) ==
    IF outcome = "ok" THEN preload_store(S, url, outcome).audio_cache[url] ELSE 0

\* What can happen in _preload_song behind the look into the cache:
\*   "resolver raises"  extract_info raises
\*   "no info"          extract_info returns nothing
\*   "no stream url"    info has no url and no format with audio
\*   "source raises"    FFmpegPCMAudio / PCMVolumeTransformer raises
\*   "ok"               the source is built
PreloadCauses == {"resolver raises", "no info", "no stream url", "source raises", "ok"}

\* the outcome, as play_next and the caches see it, that a cause leads to
cause_outcome(cause) ==
    CASE cause \in {"resolver raises", "no info"} -> "noinfo"
      [] cause \in {"no stream url", "source raises"} -> "noaudio"
      [] cause = "ok" -> "ok"

\* how a block of code ends: it returns a value or it raises
Returns(S, value) == [S |-> S, kind |-> "return", value |-> value]
Raises(S) == [S |-> S, kind |-> "raise", value |-> 0]

\* the body of _preload_song's inner try
preload_try(S, url, cause) ==
    CASE cause = "resolver raises" -> Raises(S)
      [] cause = "no info" -> Returns(S, 0)
      [] cause = "no stream url" -> Returns([S EXCEPT !.title_cache = @ \cup {url}], 0)
      [] cause = "source raises" -> Raises([S EXCEPT !.title_cache = @ \cup {url}])
      [] cause = "ok" ->
            LET S1 == [S EXCEPT !.title_cache = @ \cup {url},
                                !.audio_cache[url] = @ + 1,
                                !.cache_first = IF @ = NoRef THEN url ELSE @]
            IN  Returns(S1, S1.audio_cache[url])

\* a faulty preload_except: the handler raises again what it caught
preload_reraise(r) == r

\* except Exception as e: print / log_error; return None
preload_except(r) == IF r.kind = "raise" THEN Returns(r.S, 0) ELSE r

\* _preload_song(url) behind the look into the cache: the inner try with the handler of
\* the source (a third try in the code), of the resolution and of the whole function
preload_song(S, url, cause) == preload_except(preload_try(S, url, cause))

\* a faulty preload_song_hit: _preload_song without its look into the cache
preload_song_miss(S, url) == FALSE

\* _preload_song(url), before its await: if url in self.audio_cache, it returns the entry
preload_song_hit(S, url) == S.audio_cache[url] # 0

\* loop.create_task(self._preload_song(url)): one more background resolution of url
create_preload_task(S, url) ==
    [S EXCEPT !.preloads[url] = @ + 1, !.requested = Append(@, url)]

RECURSIVE preload_scan(_, _, _, _)
preload_scan(S, q, i, n) ==
    IF i > n THEN S
    ELSE preload_scan(IF S.audio_cache[q[i]] = 0 THEN create_preload_task(S, q[i]) ELSE S,
                      q, i + 1, n)

Min(x, y) == IF x < y THEN x ELSE y

\* a faulty preload_next_tracks: range(len(queue))
preload_all_tracks(S, g, count) ==
    LET S1 == get_queue(S, g)
        q == S1.queues[g]
    IN  preload_scan(S1, q, 1, Len(q))

preload_next_tracks(S, g, count) ==
    LET S1 == get_queue(S, g)
        q == S1.queues[g]
    IN  preload_scan(S1, q, 1, Min(count, Len(q)))

\* ------------------------------------------------------------- play_next

Return(S, how) == Result([S EXCEPT !.ret = how], IdleTask)

\* guild.voice_client.play(source, after=...) raises: no voice client (AttributeError),
\* not connected or already playing (ClientException), or the player rejects the source
vc_play_raises(S, g, reject) ==
    \/ ~VcConnected(S, g)
    \/ is_playing(S, g)
    \/ reject

\* a faulty retry_or_give_up: retry_count > max_retries in place of >=
retry_once_more(S, tk) ==
    LET rc == tk.retry_count + 1
    IN  IF rc > max_retries
        THEN Result(send(S, MsgFailedAfter), [tk EXCEPT !.retry_count = rc, !.pc = "drop"])
        ELSE Result(S, [tk EXCEPT !.retry_count = rc, !.pc = "sleep"])

\* except Exception (inner): retry_count += 1, give up at max_retries, else sleep
retry_or_give_up(S, tk) ==
    LET rc == tk.retry_count + 1
    IN  IF rc >= max_retries
        THEN Result(send(S, MsgFailedAfter), [tk EXCEPT !.retry_count = rc, !.pc = "drop"])
        ELSE Result(S, [tk EXCEPT !.retry_count = rc, !.pc = "sleep"])

\* a faulty pop_and_play: the head is removed after the player has taken the source
play_then_pop(S, tk, reject) ==
    LET g == tk.g
    IN  IF S.queues[g] = <<>> \/ vc_play_raises(S, g, reject)
        THEN retry_or_give_up(S, tk)
        ELSE LET S1 == queue_pop0(S, g)
                 S2 == [S1 EXCEPT !.playing[g] = <<tk.url, tk.cached_data>>,
                                  !.paused[g] = FALSE]
                 S3 == send(S2, MsgNowPlaying(Title(tk.url)))
             IN  Return(preload_next_tracks(S3, g, preload_count), "playing")

\* cached_data is there: queue.pop(0), hand the source to the player, announce, preload
pop_and_play(S, tk, reject) ==
    LET g == tk.g
    IN  IF S.queues[g] = <<>>
        THEN retry_or_give_up(S, tk)                      \* IndexError
        ELSE LET S1 == queue_pop0(S, g)
                 tk1 == [tk EXCEPT !.popped = Append(@, Head(S.queues[g]))]
             IN  IF vc_play_raises(S1, g, reject)
                 THEN retry_or_give_up(S1, tk1)
                 ELSE LET S2 == [S1 EXCEPT !.playing[g] = <<tk.url, tk.cached_data>>,
                                          !.paused[g] = FALSE]
                          S3 == send(S2, MsgNowPlaying(Title(tk.url)))
                      IN  Return(preload_next_tracks(S3, g, preload_count), "playing")

\* one iteration of the while loop, from its top
loop_body(S, tk, reject) ==
    IF tk.cached_data = 0
    THEN IF preload_song_hit(S, tk.url)
         THEN pop_and_play(S, [tk EXCEPT !.cached_data = S.audio_cache[tk.url],
                                         !.loads = @ + 1], reject)
         ELSE Result(S, [tk EXCEPT !.pc = "resolving", !.loads = @ + 1])
    ELSE pop_and_play(S, tk, reject)

\* a faulty play_next: without the look at the voice client
play_next_unchecked(S, tk, reject) ==
    LET g == tk.g
        S1 == get_queue(S, g)
        q == S1.queues[g]
    IN  IF q = <<>>
        THEN Return(send(S1, MsgQueueFinished), "finished")
        ELSE loop_body(S1, [tk EXCEPT !.pc = "play_next", !.url = q[1],
                                      !.cached_data = S1.audio_cache[q[1]],
                                      !.retry_count = 0, !.loads = 0,
                                      !.popped = <<>>, !.stale = FALSE],
                      reject)

\* play_next from its entry
play_next(S, tk, reject) ==
    LET g == tk.g
    IN  IF ~VcPresent(S, g) \/ ~VcConnected(S, g)
        THEN Return(S, "novoice")
        ELSE LET S1 == get_queue(S, g)
                 q == S1.queues[g]
             IN  IF q = <<>>
                 THEN Return(send(S1, MsgQueueFinished), "finished")
                 ELSE loop_body(S1, [tk EXCEPT !.pc = "play_next", !.url = q[1],
                                               !.cached_data = S1.audio_cache[q[1]],
                                               !.retry_count = 0, !.loads = 0,
                                               !.popped = <<>>, !.stale = FALSE],
                               reject)

\* a faulty play_next_resolved: the head is removed before the entry is looked at
play_next_resolved_eager(S, tk, outcome, reject) ==
    LET S1 == preload_store(S, tk.url, outcome)
        e == preload_entry(S, tk.url, outcome)
    IN  IF e = 0
        THEN retry_or_give_up(IF S1.queues[tk.g] # <<>> THEN queue_pop0(S1, tk.g) ELSE S1, tk)
        ELSE pop_and_play(S1, [tk EXCEPT !.cached_data = e], reject)

\* play_next resumed when the resolver answers _preload_song
play_next_resolved(S, tk, outcome, reject) ==
    LET S1 == preload_store(S, tk.url, outcome)
        e == preload_entry(S, tk.url, outcome)
    IN  IF e = 0
        THEN retry_or_give_up(S1, tk)                     \* "Failed to load audio data"
        ELSE pop_and_play(S1, [tk EXCEPT !.cached_data = e], reject)

\* after "Failed to play track ...": queue.pop(0) and play_next again; an IndexError
\* escapes to the outer handler, which sends "Error playing song"
play_next_drop(S, tk, reject) ==
    IF S.queues[tk.g] = <<>>
    THEN Result(send(S, MsgErrorPlaying), [tk EXCEPT !.pc = "outer"])
    ELSE play_next(queue_pop0(S, tk.g), tk, reject)

\* the outer handler after its message: if queue: queue.pop(0); play_next
play_next_outer(S, tk, reject) ==
    IF S.queues[tk.g] # <<>>
    THEN play_next(queue_pop0(S, tk.g), tk, reject)
    ELSE Return(S, "error")

\* a faulty handle_playback_error: play_next only in the branch without an error
advance_unless_error(S, tk, reject) ==
    IF tk.err
    THEN Result(send(S, MsgPlaybackError), IdleTask)
    ELSE play_next(S, tk, reject)

\* _handle_playback_error(error, guild, text_channel), scheduled by the player's callback
handle_playback_error(S, tk, reject) ==
    IF tk.err
    THEN Result(send(S, MsgPlaybackError), [tk EXCEPT !.pc = "advance"])
    ELSE play_next(S, tk, reject)

\* -------------------------------------------------------------- commands

\* a faulty after_callback: the callback removes the queue head on the player's thread
after_callback_pops(S, g, e) ==
    LET S1 == IF g \in DOMAIN S.queues /\ S.queues[g] # <<>> THEN queue_pop0(S, g) ELSE S
    IN  [S1 EXCEPT !.scheduled =
                       Append(@, [IdleTask EXCEPT !.pc = "callback", !.g = g, !.err = e])]

\* after=lambda e: asyncio.run_coroutine_threadsafe(
\*     self._handle_playback_error(e, guild, text_channel), self.loop)
after_callback(S, g, e) ==
    [S EXCEPT !.scheduled = Append(@, [IdleTask EXCEPT !.pc = "callback", !.g = g, !.err = e])]

\* the player ends the stream of guild g and calls the after-callback given to play()
player_ends(S, g, e) ==
    after_callback([S EXCEPT !.playing[g] = NoSrc, !.paused[g] = FALSE], g, e)

\* voice_client.stop()
vc_stop(S, g) == IF has_player(S, g) THEN player_ends(S, g, FALSE) ELSE S

\* await voice_client.disconnect(): stops the player, then the guild has no voice client
vc_disconnect(S, g) == [vc_stop(S, g) EXCEPT !.vc[g] = "none"]

\* a faulty skip: the command removes the queue head itself
skip_and_pop(S, g) ==
    IF ~VcPresent(S, g) THEN send(S, MsgNotPlaying)
    ELSE IF is_playing(S, g)
         THEN LET S1 == get_queue(S, g)
                  S2 == IF S1.queues[g] # <<>> THEN queue_pop0(S1, g) ELSE S1
              IN  send(vc_stop(S2, g), MsgSkipped)
    ELSE send(S, MsgNoSong)

\* /skip
skip(S, g) ==
    IF ~VcPresent(S, g) THEN send(S, MsgNotPlaying)
    ELSE IF is_playing(S, g) THEN send(vc_stop(S, g), MsgSkipped)
    ELSE send(S, MsgNoSong)

\* /stop
stop(S, g) ==
    IF ~VcPresent(S, g) THEN send(S, MsgNotPlaying)
    ELSE LET S1 == queue_clear(get_queue(S, g), g)
             S2 == IF is_playing(S1, g) THEN vc_stop(S1, g) ELSE S1
             S3 == vc_disconnect(S2, g)
         IN  send(S3, MsgStopped)

\* a faulty pause: voice_client.pause() without the is_playing() check
pause_unchecked(S, g) ==
    IF ~VcPresent(S, g) THEN send(S, MsgNotPlaying)
    ELSE send([S EXCEPT !.paused[g] = TRUE], MsgPaused)

\* /pause
pause(S, g) ==
    IF ~VcPresent(S, g) THEN send(S, MsgNotPlaying)
    ELSE IF ~is_playing(S, g) THEN send(S, MsgNoMusicPlaying)
    ELSE IF is_paused(S, g) THEN send(S, MsgAlreadyPaused)
    ELSE send([S EXCEPT !.paused[g] = TRUE], MsgPaused)        \* voice_client.pause()

\* /resume
resume(S, g) ==
    IF ~VcPresent(S, g) THEN send(S, MsgNotPlaying)
    ELSE IF ~is_paused(S, g) THEN send(S, MsgNotPaused)
    ELSE send([S EXCEPT !.paused[g] = FALSE], MsgResumed)      \* voice_client.resume()

\* /queue: the fields of the card it replies with
up_next_limit == 10                          \* queue[:10], len(queue) > 10
TxtNothingPlaying == <<"*Nothing is playing*">>
TxtUnknownTrack == <<"Unknown Track">>
TxtLoading == <<"Loading...">>
TxtNoSongs == <<"*No songs in queue*">>
TxtMore(n) == <<n, " more songs in queue">>
Field(name, value) == [name |-> name, value |-> value]

\* the url whose audio cache entry holds the source the voice client plays
current_url(S, g) ==
    IF \E url \in Refs : <<url, S.audio_cache[url]>> = S.playing[g]
    THEN S.playing[g][1] ELSE NoRef

now_playing_field(S, g) ==
    IF VcPresent(S, g) /\ is_playing(S, g)
    THEN IF current_url(S, g) # NoRef /\ current_url(S, g) \in S.title_cache
         THEN Field("Now Playing", Title(current_url(S, g)))
         ELSE IF S.cache_first # NoRef            \* next(iter(self.audio_cache.values()))
              THEN Field("Now Playing", Title(S.cache_first))
              ELSE Field("Now Playing", TxtUnknownTrack)
    ELSE Field("Now Playing", TxtNothingPlaying)

\* `i.` title of queue[i-1], or the placeholder for a reference without metadata
queue_line(S, q, i) ==
    <<i, IF q[i] \in S.title_cache THEN Title(q[i]) ELSE TxtLoading>>

\* a faulty up_next_fields: len(queue) >= 10 in place of len(queue) > 10
up_next_fields_from_10(S, q) ==
    IF q # <<>>
    THEN <<Field("Up Next", [i \in 1..Min(Len(q), up_next_limit) |-> queue_line(S, q, i)])>>
         \o (IF Len(q) >= up_next_limit
             THEN <<Field("And more...", TxtMore(Len(q) - up_next_limit))>> ELSE <<>>)
    ELSE <<Field("Up Next", TxtNoSongs)>>

up_next_fields(S, q) ==
    IF q # <<>>
    THEN <<Field("Up Next", [i \in 1..Min(Len(q), up_next_limit) |-> queue_line(S, q, i)])>>
         \o (IF Len(q) > up_next_limit
             THEN <<Field("And more...", TxtMore(Len(q) - up_next_limit))>> ELSE <<>>)
    ELSE <<Field("Up Next", TxtNoSongs)>>

\* /queue: the store it leaves and the card it sends
show_queue(S, g) ==
    LET S1 == get_queue(S, g)
    IN  [S |-> S1,
         card |-> [kind |-> "card",
                   fields |-> <<now_playing_field(S1, g)>> \o up_next_fields(S1, S1.queues[g])]]

\* What the resolver gives the play command for its query
ErrorClasses == {"drm", "unavailable", "unknown"}
ResolverResults ==
    [kind : {"error"}, class : ErrorClasses \ {"drm"}] \cup [kind : {"none"}]
        \cup [kind : {"track"}, ref : Refs \cup {NoRef}]

\* What _try_alternative_source and the resolution of its URL give the DRM fallback
AltInfos == {"raise", "none", NoRef} \cup Refs
AltResults ==
    [kind : {"error"}, class : {"drm"}, found : {FALSE}]
        \cup [kind : {"error"}, class : {"drm"}, found : {TRUE},
               message : AltMessages, info : AltInfos]

\* What _try_alternative_source (and _extract_song_info when that found nothing) give
\* /play for a Spotify / Apple Music link; "direct" is any other query
StreamingResults ==
    [kind : {"found"}, message : AltMessages] \cup [kind : {"direct", "phrase", "nothing"}]

\* /play up to its await of the resolver: connect, rewrite the query
play_begin(S, tk, pre) ==
    LET S1 == IF ~VcPresent(S, tk.g) THEN [S EXCEPT !.vc[tk.g] = "connected"] ELSE S
        S2 == IF pre.kind = "direct" THEN S1 ELSE send(S1, MsgProcessingLink)
    IN  CASE pre.kind = "direct"  -> Result(S2, [tk EXCEPT !.pc = "play"])
          [] pre.kind = "found"   -> Result(send(S2, MsgAltOk(pre.message)), [tk EXCEPT !.pc = "play"])
          [] pre.kind = "phrase"  -> Result(send(S2, MsgSearchingFor), [tk EXCEPT !.pc = "play"])
          [] pre.kind = "nothing" -> Result(send(S2, MsgNoSongInfo), IdleTask)

\* record the metadata of url
set_title(S, url) == [S EXCEPT !.title_cache = @ \cup {url}]

\* the reply to a resolver failure outside the DRM class; the failures the text of
\* which is of no interest carry none
error_reply(res) ==
    IF res.class = "unknown" /\ "text" \in DOMAIN res
    THEN MsgErrorLoading(res.text)
    ELSE MsgResolverError(res.class)

\* /play when the resolver answers: the single-track branch and the failure replies
play_single(S, tk, res) ==
    CASE res.kind = "error" -> Result(send(S, error_reply(res)), IdleTask)
      [] res.kind = "none" -> Result(send(S, MsgNoAudio), IdleTask)
      [] res.kind = "track" ->
            IF res.ref = NoRef
            THEN Result(send(S, MsgNoTrack), IdleTask)
            ELSE LET S1 == set_title(queue_append(S, tk.g, res.ref), res.ref)
                 IN  Result(send(S1, MsgTrackAdded(Title(res.ref))),
                            [tk EXCEPT !.pc = "play_check"])

\* a faulty play_if_idle: play_next without the is_playing() check
play_always(S, tk, reject) == play_next(S, tk, reject)

\* if not interaction.guild.voice_client.is_playing(): await self.play_next(...)
play_if_idle(S, tk, reject) ==
    IF is_playing(S, tk.g) THEN Result(S, IdleTask) ELSE play_next(S, tk, reject)

\* /play after the embed is sent; with no voice client the attribute access raises
\* and the command's outer handler replies
play_check(S, tk, reject) ==
    IF ~VcPresent(S, tk.g)
    THEN Result(send(S, MsgCommandError), IdleTask)
    ELSE play_if_idle(S, tk, reject)

\* a faulty play_drm: an alternative that resolves to no reference ends the command
\* without the reply
play_drm_silent(S, tk, alt, reject) ==
    LET S0 == send(S, MsgDrmDetected)
    IN  IF ~alt.found \/ alt.info \in {"raise", "none"}
        THEN Result(send(S0, MsgNoAlternative), IdleTask)
        ELSE LET S1 == send(S0, MsgAltOk(alt.message))
             IN  IF alt.info = NoRef
                 THEN Result(S1, IdleTask)
                 ELSE LET S2 == set_title(queue_append(S1, tk.g, alt.info), alt.info)
                      IN  IF ~VcPresent(S2, tk.g)
                          THEN Result(send(S2, MsgNoAlternative), IdleTask)
                          ELSE play_if_idle(S2, tk, reject)

\* /play in the DRM branch: the resolver raised a DRM error; alt is what the alternative
\* search and the resolution of its URL give
play_drm(S, tk, alt, reject) ==
    LET S0 == send(S, MsgDrmDetected)
    IN  IF ~alt.found \/ alt.info \in {"raise", "none"}
        THEN Result(send(S0, MsgNoAlternative), IdleTask)
        ELSE LET S1 == send(S0, MsgAltOk(alt.message))
             IN  IF alt.info = NoRef
                 THEN Result(send(S1, MsgNoAlternative), IdleTask)
                 ELSE LET S2 == set_title(queue_append(S1, tk.g, alt.info), alt.info)
                      IN  IF ~VcPresent(S2, tk.g)
                          THEN Result(send(S2, MsgNoAlternative), IdleTask)
                          ELSE play_if_idle(S2, tk, reject)

\* ------------------------------------------------------------- playlists

\* A playlist is the list info['entries'] the resolver gives for its query: each entry
\* a reference, or NoRef for an entry that is None or has no url.  The model names a
\* playlist query by that list.
expand_preload_limit == 3                    \* if len(queue) <= 3

RECURSIVE first_resolvable(_)
\* next((e for e in info['entries'] if e and (e.get('webpage_url') or e.get('url'))), None)
first_resolvable(entries) ==
    IF entries = <<>> THEN NoRef
    ELSE IF Head(entries) # NoRef THEN Head(entries)
    ELSE first_resolvable(Tail(entries))

\* A process_pending_playlists task.  Its for loop iterates the list object that
\* self.pending_playlists[guild_id] named when the loop began: live tells that the dict
\* still names that object (so that /play appends to it and the loop sees the new
\* query), otherwise list is the object's content, which nothing changes any more.
\* reporting tells that the task awaits the channel.send of its except clause.
NewDrain == [pos |-> 0, live |-> FALSE, list |-> <<>>, reporting |-> FALSE]

\* a faulty play_playlist: every resolvable entry is appended by the command itself
RECURSIVE append_all(_, _, _)
append_all(S, g, entries) ==
    IF entries = <<>> THEN S
    ELSE append_all(IF Head(entries) # NoRef
                    THEN set_title(queue_append(S, g, Head(entries)), Head(entries))
                    ELSE S, g, Tail(entries))

play_playlist_eager(S, tk, res) ==
    LET g == tk.g
        S1 == [get_queue(S, g) EXCEPT !.pending_playlists[g] = Append(@, res.entries)]
    IN  IF first_resolvable(res.entries) = NoRef
        THEN Result(send(S1, MsgNoPlayable), [tk EXCEPT !.pc = "play_check"])
        ELSE Result(send([append_all(S1, g, res.entries)
                              EXCEPT !.expanding[g] = Append(@, NewDrain)],
                         MsgPlaylistAdded(1)),
                    [tk EXCEPT !.pc = "play_check"])

\* /play when the resolver answers with a playlist ('entries' in info): the query is
\* registered, the first resolvable entry is appended and process_pending_playlists is
\* created as a task
play_playlist(S, tk, res) ==
    LET g == tk.g
        S1 == [get_queue(S, g) EXCEPT !.pending_playlists[g] = Append(@, res.entries)]
        url == first_resolvable(res.entries)
    IN  IF url = NoRef
        THEN Result(send(S1, MsgNoPlayable), [tk EXCEPT !.pc = "play_check"])
        ELSE LET S2 == set_title(queue_append(S1, g, url), url)
                 S3 == [S2 EXCEPT !.expanding[g] = Append(@, NewDrain)]
             IN  Result(send(S3, MsgPlaylistAdded(1)), [tk EXCEPT !.pc = "play_check"])

\* a faulty expand_entries: len(queue) < 3 in place of len(queue) <= 3
RECURSIVE expand_entries_below(_, _, _)
expand_entries_below(S, g, entries) ==
    IF entries = <<>> THEN S
    ELSE IF Head(entries) = NoRef THEN expand_entries_below(S, g, Tail(entries))
    ELSE LET url == Head(entries)
             S1 == queue_append(set_title(S, url), g, url)
             S2 == IF Len(S1.queues[g]) < expand_preload_limit
                   THEN create_preload_task(S1, url) ELSE S1
         IN  expand_entries_below(S2, g, Tail(entries))

\* for entry in info['entries'][1:]: metadata, queue.append(url), and a background
\* _preload_song(url) if the queue then holds at most 3 references
RECURSIVE expand_entries(_, _, _)
expand_entries(S, g, entries) ==
    IF entries = <<>> THEN S
    ELSE IF Head(entries) = NoRef THEN expand_entries(S, g, Tail(entries))
    ELSE LET url == Head(entries)
             S1 == queue_append(set_title(S, url), g, url)
             S2 == IF Len(S1.queues[g]) <= expand_preload_limit
                   THEN create_preload_task(S1, url) ELSE S1
         IN  expand_entries(S2, g, Tail(entries))

drain_list(S, g, d) == IF d.live THEN S.pending_playlists[g] ELSE d.list

RemoveAt(s, k) == SubSeq(s, 1, k - 1) \o SubSeq(s, k + 1, Len(s))

\* self.pending_playlists[guild_id] = [] at the end of the k-th task: the dict names a
\* new empty list, and every other task keeps iterating the object it began with
drain_reset(S, g, k) ==
    LET L == S.pending_playlists[g]
        rest == RemoveAt(S.expanding[g], k)
    IN  [S EXCEPT !.pending_playlists[g] = <<>>,
                  !.expanding[g] = [j \in DOMAIN rest |->
                                        IF rest[j].live
                                        THEN [rest[j] EXCEPT !.live = FALSE, !.list = L]
                                        ELSE rest[j]]]

\* a faulty drain_next: the pass ends at the first query that raised
drain_abort(S, g, k) ==
    IF S.expanding[g][k].reporting
    THEN drain_reset(S, g, k)
    ELSE LET d == S.expanding[g][k]
         IN  IF d.pos < Len(drain_list(S, g, d))
             THEN [S EXCEPT !.expanding[g][k] = [d EXCEPT !.pos = d.pos + 1]]
             ELSE drain_reset(S, g, k)

\* the for loop of the k-th task goes on: to its await of the resolver for the next
\* query of the list, or past the end of the list to the reset
drain_next(S, g, k) ==
    LET d == S.expanding[g][k]
    IN  IF d.pos < Len(drain_list(S, g, d))
        THEN [S EXCEPT !.expanding[g][k] =
                           [d EXCEPT !.pos = d.pos + 1, !.reporting = FALSE]]
        ELSE drain_reset(S, g, k)

\* the k-th task starts: the for loop takes the list the dict names now and awaits the
\* resolver for its first query, or finds the list empty
expand_start(S, g, k) ==
    IF S.pending_playlists[g] = <<>>
    THEN drain_reset(S, g, k)
    ELSE [S EXCEPT !.expanding[g][k] =
                       [pos |-> 1, live |-> TRUE, list |-> <<>>, reporting |-> FALSE]]

\* the k-th task when the resolver answers for the query it awaits: the entries
\* behind the first are appended and the loop goes on, or the resolver raised and the
\* except clause awaits its message to the channel
expand_resolved(S, g, k, outcome) ==
    LET d == S.expanding[g][k]
        entries == drain_list(S, g, d)[d.pos]
    IN  CASE outcome = "ok" ->
                 drain_next(IF entries = <<>> THEN S
                            ELSE expand_entries(get_queue(S, g), g, Tail(entries)), g, k)
          [] outcome = "none" -> drain_next(S, g, k)
          [] outcome = "raise" ->
                 [send(S, MsgPlaylistError) EXCEPT !.expanding[g][k].reporting = TRUE]

\* the k-th task when the message of its except clause is sent
expand_reported(S, g, k) == drain_next(S, g, k)

\* /play resumed when the resolver answers
play_resolved(S, tk, res, reject) ==
    IF res.kind = "error" /\ res.class = "drm"
    THEN play_drm(S, tk, res, reject)
    ELSE IF res.kind = "playlist"
    THEN play_playlist(S, tk, res)
    ELSE play_single(S, tk, res)

\* --------------------------------------------------------- older engine

\* play_next of src/musicold.py, on a store of its own.  It calls _preload_song once
\* for the head of the queue and has no retry loop; the player's after-callback submits
\* play_next itself; nothing is preloaded behind the track that starts.  Its
\* _preload_song awaits FFmpegOpusAudio.from_probe behind the resolver, which is
\* folded into the resolver's answer here.
MsgCouldNotLoad == <<"Could not load the audio.">>

\* except Exception: the message, then play_next again
old_except(S, tk) == Result(send(S, MsgErrorPlaying), [tk EXCEPT !.pc = "old_again"])

\* a faulty old_pop_and_play: the source is handed to the player and the head stays
old_play_head(S, tk, reject) ==
    LET g == tk.g
    IN  IF S.queues[g] = <<>> \/ vc_play_raises(S, g, reject)
        THEN old_except(S, tk)
        ELSE LET S1 == [S EXCEPT !.playing[g] = <<tk.url, tk.cached_data>>,
                                 !.paused[g] = FALSE]
             IN  Return(send(S1, MsgNowPlaying(Title(tk.url))), "playing")

\* cached_data is there: queue.pop(0), hand the source to the player, announce
old_pop_and_play(S, tk, reject) ==
    LET g == tk.g
    IN  IF S.queues[g] = <<>>
        THEN old_except(S, tk)                            \* IndexError
        ELSE LET S1 == queue_pop0(S, g)
             IN  IF vc_play_raises(S1, g, reject)
                 THEN old_except(S1, tk)
                 ELSE LET S2 == [S1 EXCEPT !.playing[g] = <<tk.url, tk.cached_data>>,
                                          !.paused[g] = FALSE]
                      IN  Return(send(S2, MsgNowPlaying(Title(tk.url))), "playing")

\* play_next from its entry, up to the await of the resolver in _preload_song
old_play_next(S, tk, reject) ==
    LET g == tk.g
    IN  IF ~VcPresent(S, g) \/ ~VcConnected(S, g)
        THEN Return(S, "novoice")
        ELSE LET S1 == get_queue(S, g)
                 q == S1.queues[g]
                 tk1 == [tk EXCEPT !.pc = "old_resolving", !.url = q[1],
                                   !.cached_data = S1.audio_cache[q[1]],
                                   !.retry_count = 0, !.loads = 1,
                                   !.popped = <<>>, !.stale = FALSE]
             IN  IF q = <<>>
                 THEN Return(send(S1, MsgQueueFinished), "finished")
                 ELSE IF preload_song_hit(S1, q[1])
                      THEN old_pop_and_play(S1, tk1, reject)
                      ELSE Result(S1, tk1)

\* play_next resumed when the resolver answers _preload_song: without an entry the
\* head is removed and reported, and play_next is called again
old_play_next_resolved(S, tk, outcome, reject) ==
    LET S1 == preload_store(S, tk.url, outcome)
        e == preload_entry(S, tk.url, outcome)
    IN  IF e = 0
        THEN IF S1.queues[tk.g] = <<>>
             THEN old_except(S1, tk)                      \* IndexError
             ELSE Result(send(queue_pop0(S1, tk.g), MsgCouldNotLoad),
                         [tk EXCEPT !.pc = "old_again"])
        ELSE old_pop_and_play(S1, [tk EXCEPT !.cached_data = e], reject)

\* /play after the embed is sent, as in the newer engine but for the play_next called
old_play_check(S, tk, reject) ==
    IF ~VcPresent(S, tk.g)
    THEN Result(send(S, MsgCommandError), IdleTask)
    ELSE IF is_playing(S, tk.g) THEN Result(S, IdleTask) ELSE old_play_next(S, tk, reject)

\* the next step of a coroutine of the older engine; the coroutine the player's
\* callback submits is play_next
old_task_step(S, tk, outcome, reject) ==
    CASE tk.pc = "play_check" -> old_play_check(S, tk, reject)
      [] tk.pc = "callback" -> old_play_next(S, tk, reject)
      [] tk.pc = "old_resolving" -> old_play_next_resolved(S, tk, outcome, reject)
      [] tk.pc = "old_again" -> old_play_next(S, tk, reject)

\* -------------------------------------------------------------- queries

\* A query is a sequence of pieces of text: "/", "?" and the pieces between them.
\* "x in query" is: x is one of the pieces.
starts_with(q, p) == Len(p) <= Len(q) /\ SubSeq(q, 1, Len(p)) = p

\* str.lower() of a piece
lower_piece(x) ==
    CASE x = "Spotify.com" -> "spotify.com"
      [] x = "Music.Apple.com" -> "music.apple.com"
      [] OTHER -> x
query_lower(q) == [i \in DOMAIN q |-> lower_piece(q[i])]

has(q, x) == \E i \in DOMAIN q : q[i] = x

RECURSIVE split(_, _)
\* str.split(sep): the pieces between the occurrences of sep, a list that is never empty
split(q, sep) ==
    IF ~has(q, sep) THEN <<q>>
    ELSE LET i == CHOOSE j \in DOMAIN q : q[j] = sep /\ \A k \in 1..(j - 1) : q[k] # sep
         IN  <<SubSeq(q, 1, i - 1)>> \o split(SubSeq(q, i + 1, Len(q)), sep)

is_url(q) == starts_with(q, <<"http:", "/", "/">>) \/ starts_with(q, <<"https:", "/", "/">>)
is_streaming(q) == has(query_lower(q), "spotify.com") \/ has(query_lower(q), "music.apple.com")

\* f"https://www.youtube.com/watch?v={video_id}"
watch_url(video_id) ==
    <<"https:", "/", "/", "www.youtube.com", "/", "watch", "?", "v=">> \o video_id

\* what the streaming branch makes of the query: the alternative's URL or a search
streaming_query(pre) ==
    IF pre.kind = "found" THEN <<"alt_url">> ELSE <<"ytsearch1:", "search_query">>

\* the query /play hands to the resolver (the command returns before if pre.kind is
\* "nothing" for a streaming link)
resolver_query(query, pre) ==
    IF is_streaming(query) THEN streaming_query(pre)
    ELSE IF ~is_url(query) THEN <<"ytsearch:">> \o query
    ELSE IF has(query, "youtu.be")
    THEN LET segments == split(query, "/")
             video_id == split(segments[Len(segments)], "?")[1]
         IN  watch_url(video_id)
    ELSE query

\* /play with a query, up to its await of the resolver
play_query(S, tk, query, pre) ==
    play_begin(S, tk, IF is_streaming(query) THEN pre ELSE [kind |-> "direct"])

\* ---------------------------------------------------------- error texts

\* The text of a resolver exception, str(e), is a sequence of phrases.  A phrase is one
\* of the phrases /play looks for or some other one, in lower case ("lower") or with
\* capitals in it ("Mixed").  "x in error_msg" is: x is one of the phrases.
known_phrases ==
    <<"[drm]", "drm protection", "video unavailable", "sign in to confirm your age",
      "not a supported url", "geo restriction", "network error", "connection error">>
Phrases ==
    ({known_phrases[i] : i \in DOMAIN known_phrases} \cup {"http error 500"})
        \X {"lower", "Mixed"}

\* str.lower()
lower(text) == [i \in DOMAIN text |-> <<text[i][1], "lower">>]

contains(text, x) == \E i \in DOMAIN text : text[i] = <<x, "lower">>

\* a faulty classify: the phrases are looked for in str(e) as it is
classify_cased(text) ==
    LET error_msg == text
    IN  CASE contains(error_msg, "[drm]") \/ contains(error_msg, "drm protection") -> "drm"
          [] OTHER -> IF contains(error_msg, "video unavailable") THEN "unavailable"
             ELSE IF contains(error_msg, "sign in to confirm your age") THEN "age"
             ELSE IF contains(error_msg, "not a supported url") THEN "unsupported"
             ELSE IF contains(error_msg, "geo restriction") THEN "geo"
             ELSE IF contains(error_msg, "network error")
                     \/ contains(error_msg, "connection error") THEN "network"
             ELSE "unknown"

\* the if / elif chain of /play's exception handler on error_msg = str(e).lower()
classify(text) ==
    LET error_msg == lower(text)
    IN  CASE contains(error_msg, "[drm]") \/ contains(error_msg, "drm protection") -> "drm"
          [] OTHER -> IF contains(error_msg, "video unavailable") THEN "unavailable"
             ELSE IF contains(error_msg, "sign in to confirm your age") THEN "age"
             ELSE IF contains(error_msg, "not a supported url") THEN "unsupported"
             ELSE IF contains(error_msg, "geo restriction") THEN "geo"
             ELSE IF contains(error_msg, "network error")
                     \/ contains(error_msg, "connection error") THEN "network"
             ELSE "unknown"

\* /play when the resolver raises an exception with the given text; alt is what the
\* alternative search gives if the handler starts it
play_raised(S, tk, text, alt, reject) ==
    IF classify(text) = "drm"
    THEN play_resolved(S, tk, alt, reject)
    ELSE play_resolved(S, tk, [kind |-> "error", class |-> classify(text), text |-> text],
                       reject)

\* ------------------------------------------------------ alternative source

\* search_terms: the phrase with " official audio", with " lyrics", and as it is
search_terms == <<"official audio", "lyrics", "">>

\* What the search for one term gives _try_alternative_source:
\*   "raise"  extract_info raises
\*   "none"   no result: nothing returned, no 'entries', or an empty list
\*   NoRef    a first entry without 'webpage_url'
\*   a reference: the 'webpage_url' of the first entry
SearchResults == {"raise", "none", NoRef} \cup Refs

\* a faulty search_loop: a search that raises ends the loop
RECURSIVE search_loop_abort(_, _, _)
search_loop_abort(results, i, tried) ==
    IF i > Len(search_terms) \/ (i > 1 /\ results[i - 1] = "raise")
    THEN [found |-> FALSE, url |-> NoRef, tried |-> tried]
    ELSE IF results[i] \in Refs
    THEN [found |-> TRUE, url |-> results[i], tried |-> Append(tried, search_terms[i])]
    ELSE search_loop_abort(results, i + 1, Append(tried, search_terms[i]))

\* for term in search_terms, from the i-th term on; results[i] is what the search for
\* the i-th term gives, tried the terms searched for so far
RECURSIVE search_loop(_, _, _)
search_loop(results, i, tried) ==
    IF i > Len(search_terms)
    THEN [found |-> FALSE, url |-> NoRef, tried |-> tried]
    ELSE IF results[i] \in Refs
    THEN [found |-> TRUE, url |-> results[i], tried |-> Append(tried, search_terms[i])]
    ELSE search_loop(results, i + 1, Append(tried, search_terms[i]))

\* _try_alternative_source once it has a search phrase
try_alternative_source(results) == search_loop(results, 1, <<>>)

\* /play in the DRM branch with what the searches give; info is what the resolution of
\* the alternative's URL gives
play_drm_search(S, tk, results, message, info, reject) ==
    LET found == try_alternative_source(results).found
    IN  play_drm(S, tk, IF found
                        THEN [kind |-> "error", class |-> "drm", found |-> TRUE,
                              message |-> message, info |-> info]
                        ELSE [kind |-> "error", class |-> "drm", found |-> FALSE],
                 reject)

\* ---------------------------------------------------------------- actions

Init ==
    /\ queues = [g \in {} |-> <<>>]
    /\ title_cache = {}
    /\ audio_cache = [r \in Refs |-> 0]
    /\ vc = [g \in AllGuilds |-> "none"]
    /\ playing = [g \in AllGuilds |-> NoSrc]
    /\ preloads = [r \in Refs |-> 0]
    /\ task = [t \in Tasks |-> IdleTask]
    /\ appended = [g \in AllGuilds |-> <<>>]
    /\ removed = [g \in AllGuilds |-> <<>>]
    /\ cache_first = NoRef
    /\ pending_playlists = [g \in AllGuilds |-> <<>>]
    /\ paused = [g \in AllGuilds |-> FALSE]
    /\ expanding = [g \in AllGuilds |-> <<>>]
    /\ old = NoOld
    /\ out = NoOut

Free(t) == task[t].pc = "idle" /\ \A u \in Tasks : u < t => task[u].pc # "idle"

\* the step of task t ends with store and task of r
Commit(t, r) ==
    /\ Install(r.S)
    /\ task' = [task EXCEPT ![t] = r.tk]

\* a step outside the coroutines (a command without awaits, the player) left store S;
\* the coroutine it scheduled, if any, waits for its turn on the loop
CommitCommand(S, tasks) ==
    /\ IF S.scheduled # <<>>
       THEN \E t \in Tasks : Free(t) /\ task' = [tasks EXCEPT ![t] = S.scheduled[1]]
       ELSE task' = tasks
    /\ Install(S)

\* the play commands of guild g that have enqueued or may still enqueue
Enqueuing(g) ==
    Len(appended[g]) + Cardinality({t \in Tasks : task[t].pc = "play" /\ task[t].g = g})

\* /play of guild g, up to its await of the resolver
PlayBegin(g) ==
    \E t \in Tasks, pre \in StreamingResults :
        /\ Free(t)
        /\ LET r == play_begin(Store, [IdleTask EXCEPT !.g = g], pre)
           IN  Install(r.S) /\ task' = [task EXCEPT ![t] = r.tk]

Play(g) == Enqueuing(g) < MaxPlays /\ PlayBegin(g)

\* References are interchangeable until one is enqueued: the resolver's first reference
\* is called "a".
Fresh(res) ==
    \/ \E g \in GuildIds : appended[g] # <<>>
    \/ /\ res.kind = "track" => res.ref \in {"a", NoRef}
       /\ (res.kind = "error" /\ res.class = "drm" /\ res.found) => res.info \notin Refs \ {"a"}

PlayResolved(t) ==
    /\ task[t].pc = "play"
    /\ \E res \in ResolverResults \cup AltResults, reject \in BOOLEAN :
        /\ Fresh(res)
        /\ Commit(t, play_resolved(Store, task[t], res, reject))

PlayCheck(t) ==
    /\ task[t].pc = "play_check"
    /\ \E reject \in BOOLEAN : Commit(t, play_check(Store, task[t], reject))

Skip(g) == CommitCommand(skip(Store, g), task)

\* history: the play_next invocations of g that await the resolver while /stop clears
StaleAfterStop(g) ==
    [t \in Tasks |->
        IF VcPresent(Store, g) /\ task[t].g = g /\ task[t].pc = "resolving"
        THEN [task[t] EXCEPT !.stale = TRUE] ELSE task[t]]

Stop(g) == CommitCommand(stop(Store, g), StaleAfterStop(g))

\* the stream ends by itself (error = None) or the player reports an error
PlaybackEnds(g) ==
    /\ is_playing(Store, g)
    /\ \E e \in BOOLEAN : CommitCommand(player_ends(Store, g, e), task)

HandlePlaybackError(t) ==
    /\ task[t].pc = "callback"
    /\ \E reject \in BOOLEAN : Commit(t, handle_playback_error(Store, task[t], reject))

Advance(t) ==
    /\ task[t].pc = "advance"
    /\ \E reject \in BOOLEAN : Commit(t, play_next(Store, task[t], reject))

Resolved(t) ==
    /\ task[t].pc = "resolving"
    /\ \E outcome \in PreloadOutcomes, reject \in BOOLEAN :
        Commit(t, play_next_resolved(Store, task[t], outcome, reject))

Wake(t) ==
    /\ task[t].pc = "sleep"
    /\ \E reject \in BOOLEAN : Commit(t, loop_body(Store, task[t], reject))

Drop(t) ==
    /\ task[t].pc = "drop"
    /\ \E reject \in BOOLEAN : Commit(t, play_next_drop(Store, task[t], reject))

Outer(t) ==
    /\ task[t].pc = "outer"
    /\ \E reject \in BOOLEAN : Commit(t, play_next_outer(Store, task[t], reject))

\* a background _preload_song(url) gets the resolver's answer
PreloadDone(url) ==
    /\ preloads[url] > 0
    /\ \E outcome \in PreloadOutcomes :
        Install([preload_store(Store, url, outcome) EXCEPT !.preloads[url] = @ - 1])
    /\ UNCHANGED task

Next ==
    \/ \E g \in GuildIds : Play(g)
    \/ \E t \in Tasks : PlayResolved(t)
    \/ \E t \in Tasks : PlayCheck(t)
    \/ \E g \in GuildIds : Skip(g)
    \/ \E g \in GuildIds : Stop(g)
    \/ \E g \in GuildIds : PlaybackEnds(g)
    \/ \E t \in Tasks : HandlePlaybackError(t)
    \/ \E t \in Tasks : Advance(t)
    \/ \E t \in Tasks : Resolved(t)
    \/ \E t \in Tasks : Wake(t)
    \/ \E t \in Tasks : Drop(t)
    \/ \E t \in Tasks : Outer(t)
    \/ \E url \in Refs : PreloadDone(url)

Spec == Init /\ [][Next]_vars

\* ------------------------------------------------- pause and resume

Pause(g) == CommitCommand(pause(Store, g), task)

Resume(g) == CommitCommand(resume(Store, g), task)

NextPause ==
    \/ Next
    \/ \E g \in GuildIds : Pause(g)
    \/ \E g \in GuildIds : Resume(g)

PauseSpec == Init /\ [][NextPause]_vars

\* ------------------------------------------------------------ playlists

MaxEntries == 4             \* entries of a playlist

\* The playlists the resolver answers with.  References are interchangeable, so the
\* resolvable entries of a playlist are "a" and "b" in turn, starting with "a".
RECURSIVE InTurn(_, _)
InTurn(entries, r) ==
    \/ entries = <<>>
    \/ Head(entries) = NoRef /\ InTurn(Tail(entries), r)
    \/ Head(entries) = r /\ InTurn(Tail(entries), CHOOSE x \in Refs : x # r)

Playlists ==
    {pl \in UNION {[1..n -> Refs \cup {NoRef}] : n \in 0..MaxEntries} : InTurn(pl, "a")}

\* /play gets a playlist from the resolver.  One playlist query is in work per guild
\* at a time: none is pending and no expansion task runs when the next one arrives.
PlayResolvedPlaylist(t) ==
    /\ task[t].pc = "play"
    /\ pending_playlists[task[t].g] = <<>> /\ expanding[task[t].g] = <<>>
    /\ \E pl \in Playlists :
        Commit(t, play_resolved(Store, task[t], [kind |-> "playlist", entries |-> pl], FALSE))

ExpandOutcomes == {"ok", "none", "raise"}

Started(d) == d.pos > 0 /\ ~d.reporting

\* a process_pending_playlists task that was created gets its first turn
ExpandStart(g) ==
    /\ \E k \in DOMAIN expanding[g] :
        /\ expanding[g][k].pos = 0
        /\ Install(expand_start(Store, g, k))
    /\ UNCHANGED task

\* process_pending_playlists gets the resolver's answer for the query it awaits
ExpandResolved(g) ==
    /\ \E k \in DOMAIN expanding[g], outcome \in ExpandOutcomes :
        /\ Started(expanding[g][k])
        /\ Install(expand_resolved(Store, g, k, outcome))
    /\ UNCHANGED task

\* the message of the except clause of process_pending_playlists is sent
ExpandReported(g) ==
    /\ \E k \in DOMAIN expanding[g] :
        /\ expanding[g][k].reporting
        /\ Install(expand_reported(Store, g, k))
    /\ UNCHANGED task

\* the query whose resolution the k-th task of guild g awaits
Awaited(g, k) == drain_list(Store, g, expanding[g][k])[expanding[g][k].pos]

\* the next step of a coroutine that is past the resolver's answer to /play
task_step(S, tk, outcome, reject) ==
    CASE tk.pc = "play_check" -> play_check(S, tk, reject)
      [] tk.pc = "callback" -> handle_playback_error(S, tk, reject)
      [] tk.pc = "advance" -> play_next(S, tk, reject)
      [] tk.pc = "resolving" -> play_next_resolved(S, tk, outcome, reject)
      [] tk.pc = "sleep" -> loop_body(S, tk, reject)
      [] tk.pc = "drop" -> play_next_drop(S, tk, reject)
      [] tk.pc = "outer" -> play_next_outer(S, tk, reject)

\* a coroutine takes its next step; the resolver finds an audio source if it is asked
\* for one and the player accepts the source if it is handed one
RunAccepted(t) ==
    /\ task[t].pc \in {"play_check", "callback", "advance", "resolving", "sleep", "drop", "outer"}
    /\ Commit(t, task_step(Store, task[t], "ok", FALSE))

MaxQueued == 3              \* references in the queue when the playlist query arrives

RECURSIVE Alternating(_, _)
\* the queue of n references that alternates between the two, ending with r
Alternating(n, r) ==
    IF n = 0 THEN <<>>
    ELSE Append(Alternating(n - 1, CHOOSE x \in Refs : x # r), r)

\* The states a playlist query arrives in: a queue that earlier commands have left, with
\* the metadata /play recorded for its references; audio entries that preloads have
\* made; a player that is idle or plays a cached entry.  The histories start here.
InitPlaylist ==
    /\ \E n \in 0..MaxQueued, r \in Refs : queues = (1 :> Alternating(n, r))
    /\ title_cache \in SUBSET Refs
    /\ \A i \in 1..Len(queues[1]) : queues[1][i] \in title_cache
    /\ audio_cache \in [Refs -> 0..1]
    /\ \A r \in Refs : audio_cache[r] > 0 => r \in title_cache
    /\ cache_first \in Refs \cup {NoRef}
    /\ cache_first = NoRef <=> \A r \in Refs : audio_cache[r] = 0
    /\ cache_first # NoRef => audio_cache[cache_first] > 0
    /\ \E src \in {NoSrc} \cup {<<r, 1>> : r \in Refs} :
        /\ src # NoSrc => audio_cache[src[1]] = 1
        /\ playing = [g \in AllGuilds |-> IF g = 1 THEN src ELSE NoSrc]
        /\ vc \in {[g \in AllGuilds |-> IF g = 1 THEN v ELSE "none"] :
                      v \in IF src = NoSrc THEN {"none", "connected"} ELSE {"connected"}}
    /\ paused = [g \in AllGuilds |-> FALSE]
    /\ preloads = [r \in Refs |-> 0]
    /\ task = [t \in Tasks |-> IdleTask]
    /\ appended = [g \in AllGuilds |-> <<>>]
    /\ removed = [g \in AllGuilds |-> <<>>]
    /\ pending_playlists = [g \in AllGuilds |-> <<>>]
    /\ expanding = [g \in AllGuilds |-> <<>>]
    /\ old = NoOld
    /\ out = NoOut

\* /play with playlist queries on such a state, up to the end of the background
\* expansion, with a resolver that resolves every reference of a queue and a player
\* that rejects no source and plays on.
NextPlaylist ==
    \/ \E g \in GuildIds : Play(g)
    \/ \E t \in Tasks : PlayResolvedPlaylist(t)
    \/ \E g \in GuildIds : ExpandStart(g)
    \/ \E g \in GuildIds : ExpandResolved(g)
    \/ \E g \in GuildIds : ExpandReported(g)
    \/ \E t \in Tasks : RunAccepted(t)

PlaylistSpec == InitPlaylist /\ [][NextPlaylist]_vars

\* ------------------------------------------------------- show queue

MaxShowLen == 12            \* longest queue /queue is asked to show

ShowQueues ==
    {Alternating(n, r) : n \in 0..MaxShowLen, r \in Refs} \cup {<<"a", "a">>, <<"b", "b">>}

\* The states /queue is asked in: a queue, and caches and a player as play_next and
\* _preload_song leave them: a reference with an audio entry has metadata, the entry
\* that plays was the reference's cache entry when play_next took it, and the first
\* key of the audio cache is one of its keys.
InitShow ==
    /\ \E q \in ShowQueues : queues = (1 :> q)
    /\ title_cache \in SUBSET Refs
    /\ audio_cache \in [Refs -> 0..2]
    /\ \A r \in Refs : audio_cache[r] > 0 => r \in title_cache
    /\ cache_first \in Refs \cup {NoRef}
    /\ cache_first = NoRef <=> \A r \in Refs : audio_cache[r] = 0
    /\ cache_first # NoRef => audio_cache[cache_first] > 0
    /\ \E src \in {NoSrc} \cup {<<r, e>> : r \in Refs, e \in 1..2} :
        /\ src # NoSrc => src[2] <= audio_cache[src[1]]
        /\ playing = [g \in AllGuilds |-> IF g = 1 THEN src ELSE NoSrc]
        /\ vc \in {[g \in AllGuilds |-> IF g = 1 THEN v ELSE "none"] :
                      v \in IF src = NoSrc THEN {"none", "connected"} ELSE {"connected"}}
    /\ paused \in {[g \in AllGuilds |-> g = 1 /\ p] : p \in BOOLEAN}
    /\ paused[1] => playing[1] # NoSrc
    /\ preloads = [r \in Refs |-> 0]
    /\ task = [t \in Tasks |-> IdleTask]
    /\ appended = [g \in AllGuilds |-> <<>>]
    /\ removed = [g \in AllGuilds |-> <<>>]
    /\ pending_playlists = [g \in AllGuilds |-> <<>>]
    /\ expanding = [g \in AllGuilds |-> <<>>]
    /\ old = NoOld
    /\ out = NoOut

ShowQueue(g) ==
    LET r == show_queue(Store, g)
    IN  /\ out' = r.card
        /\ queues' = r.S.queues
        /\ UNCHANGED <<title_cache, audio_cache, vc, playing, preloads, task, appended,
                       removed, cache_first, pending_playlists, paused, expanding, old>>

NextShow == \E g \in GuildIds : ShowQueue(g)

ShowSpec == InitShow /\ [][NextShow]_vars

\* ------------------------------------------------------- two guilds

MaxGuildEntries == 2        \* entries of a playlist, with two guilds

\* /play of either guild gets a playlist from the resolver
PlayResolvedGuildPlaylist(t) ==
    /\ task[t].pc = "play"
    /\ pending_playlists[task[t].g] = <<>> /\ expanding[task[t].g] = <<>>
    /\ \E pl \in {p \in Playlists : Len(p) <= MaxGuildEntries} :
        Commit(t, play_resolved(Store, task[t], [kind |-> "playlist", entries |-> pl], FALSE))

MaxGuildPlays == 1          \* /play commands of a guild that enqueue

PlayGuild(g) == Enqueuing(g) < MaxGuildPlays /\ Play(g)

\* The bot in two guilds: commands, players and background tasks of both interleave on
\* the one event loop, over the one cog object.
NextGuilds ==
    \/ \E g \in AllGuilds : PlayGuild(g)
    \/ \E t \in Tasks : PlayResolvedGuildPlaylist(t)
    \/ \E g \in AllGuilds : ExpandStart(g)
    \/ \E g \in AllGuilds : ExpandResolved(g)
    \/ \E g \in AllGuilds : ExpandReported(g)
    \/ \E t \in Tasks : RunAccepted(t)
    \/ \E g \in AllGuilds : Stop(g)

GuildsSpec == Init /\ [][NextGuilds]_vars

\* ------------------------------------------------------- drain passes

MaxDrainEntries == 2        \* entries of a playlist, with several playlist queries
MaxDrainPlays == 3          \* references appended and queries pending or in resolution

\* /play while playlist queries are pending or in expansion
PlayDrain(g) ==
    /\ Enqueuing(g) + Len(pending_playlists[g]) < MaxDrainPlays
    /\ PlayBegin(g)

\* /play gets a playlist from the resolver, whatever is pending and whatever expands
PlayResolvedDrainPlaylist(t) ==
    /\ task[t].pc = "play"
    /\ \E pl \in {p \in Playlists : Len(p) <= MaxDrainEntries} :
        Commit(t, play_resolved(Store, task[t], [kind |-> "playlist", entries |-> pl], FALSE))

\* The state a burst of playlist queries arrives in: an empty queue and a player that
\* plays the cached entry of a reference.
InitDrain ==
    /\ queues = (1 :> <<>>)
    /\ title_cache = {"a"}
    /\ audio_cache = [r \in Refs |-> IF r = "a" THEN 1 ELSE 0]
    /\ cache_first = "a"
    /\ playing = [g \in AllGuilds |-> IF g = 1 THEN <<"a", 1>> ELSE NoSrc]
    /\ vc = [g \in AllGuilds |-> IF g = 1 THEN "connected" ELSE "none"]
    /\ paused = [g \in AllGuilds |-> FALSE]
    /\ preloads = [r \in Refs |-> 0]
    /\ task = [t \in Tasks |-> IdleTask]
    /\ appended = [g \in AllGuilds |-> <<>>]
    /\ removed = [g \in AllGuilds |-> <<>>]
    /\ pending_playlists = [g \in AllGuilds |-> <<>>]
    /\ expanding = [g \in AllGuilds |-> <<>>]
    /\ old = NoOld
    /\ out = NoOut

\* Playlist queries of one guild that arrive while earlier ones are pending: each /play
\* that finds an entry with a reference creates a process_pending_playlists task of its
\* own, and the tasks interleave with each other and with /play at their awaits.  The
\* player plays on, so that nothing is taken from the queue.
NextDrain ==
    \/ \E g \in GuildIds : PlayDrain(g)
    \/ \E t \in Tasks : PlayResolvedDrainPlaylist(t)
    \/ \E g \in GuildIds : ExpandStart(g)
    \/ \E g \in GuildIds : ExpandResolved(g)
    \/ \E g \in GuildIds : ExpandReported(g)
    \/ \E t \in Tasks : RunAccepted(t)

DrainSpec == InitDrain /\ [][NextDrain]_vars

\* ---------------------------------------------------------- play queries

MaxQs == 2                  \* pieces of the query string of a link

VideoIds == {"abc", "dQw4"}
QsPieces == {"x=1", "&", "/", "list=", "Spotify.com"}
QueryStrings == UNION {[1..n -> QsPieces] : n \in 1..MaxQs}

\* https://youtu.be/<id> and https://youtu.be/<id>?<query string>
ShortLinks ==
    {<<"https:", "/", "/", "youtu.be", "/", id>> : id \in VideoIds}
        \cup {<<"https:", "/", "/", "youtu.be", "/", id, "?">> \o qs :
                 id \in VideoIds, qs \in QueryStrings}

\* the queries of /play: short links, with http too, long links, links of a streaming
\* service, words to search for
Queries ==
    ShortLinks \cup {<<"http:">> \o Tail(q) : q \in ShortLinks}
        \cup {watch_url(<<id>>) : id \in VideoIds}
        \cup {<<"https:", "/", "/", "open.spotify.com", "/", "track", "/", "abc">>,
              <<"https:", "/", "/", "Music.Apple.com", "/", "album">>,
              <<"song name">>, <<"youtu.be">>}

\* the bot after construction, with the query of a /play command that arrives in out
InitQuery ==
    /\ queues = [g \in {} |-> <<>>]
    /\ title_cache = {}
    /\ audio_cache = [r \in Refs |-> 0]
    /\ vc = [g \in AllGuilds |-> "none"]
    /\ playing = [g \in AllGuilds |-> NoSrc]
    /\ preloads = [r \in Refs |-> 0]
    /\ task = [t \in Tasks |-> IdleTask]
    /\ appended = [g \in AllGuilds |-> <<>>]
    /\ removed = [g \in AllGuilds |-> <<>>]
    /\ cache_first = NoRef
    /\ pending_playlists = [g \in AllGuilds |-> <<>>]
    /\ paused = [g \in AllGuilds |-> FALSE]
    /\ expanding = [g \in AllGuilds |-> <<>>]
    /\ old = NoOld
    /\ \E q \in Queries : out = [kind |-> "query", query |-> q]

\* /play runs up to its await of the resolver; out records the query it hands it
PlayQuery(g) ==
    /\ out.kind = "query"
    /\ \E t \in Tasks, pre \in StreamingResults \ {[kind |-> "direct"]} :
        /\ Free(t)
        /\ LET r == play_query(Store, [IdleTask EXCEPT !.g = g], out.query, pre)
           IN  /\ InstallOut(r.S, IF r.tk.pc = "play"
                                  THEN [kind |-> "resolving", from |-> out.query,
                                        query |-> resolver_query(out.query, pre)]
                                  ELSE [kind |-> "returned", from |-> out.query])
               /\ task' = [task EXCEPT ![t] = r.tk]

NextQuery == \E g \in GuildIds : PlayQuery(g)

QuerySpec == InitQuery /\ [][NextQuery]_vars

\* ----------------------------------------------------- resolver failures

MaxPhrases == 2             \* phrases of an error text

ErrorTexts == UNION {[1..n -> Phrases] : n \in 0..MaxPhrases}

\* /play of guild 1 awaits the resolver, which is about to raise with the text in out
InitRaise ==
    /\ queues = [g \in {} |-> <<>>]
    /\ title_cache = {}
    /\ audio_cache = [r \in Refs |-> 0]
    /\ vc = [g \in AllGuilds |-> IF g = 1 THEN "connected" ELSE "none"]
    /\ playing = [g \in AllGuilds |-> NoSrc]
    /\ preloads = [r \in Refs |-> 0]
    /\ task = [t \in Tasks |-> IF t = 1 THEN [IdleTask EXCEPT !.pc = "play", !.g = 1]
                                        ELSE IdleTask]
    /\ appended = [g \in AllGuilds |-> <<>>]
    /\ removed = [g \in AllGuilds |-> <<>>]
    /\ cache_first = NoRef
    /\ pending_playlists = [g \in AllGuilds |-> <<>>]
    /\ paused = [g \in AllGuilds |-> FALSE]
    /\ expanding = [g \in AllGuilds |-> <<>>]
    /\ old = NoOld
    /\ \E text \in ErrorTexts : out = [kind |-> "raised", text |-> text]

\* the resolver raises; out records what the command sends
ResolverRaises(t) ==
    /\ task[t].pc = "play" /\ out.kind = "raised"
    /\ \E alt \in AltResults, reject \in BOOLEAN :
        LET r == play_raised(Store, task[t], out.text, alt, reject)
        IN  /\ InstallOut(r.S, [kind |-> "replied", text |-> out.text, sent |-> r.S.sent])
            /\ task' = [task EXCEPT ![t] = r.tk]

NextRaise == \E t \in Tasks : ResolverRaises(t)

RaiseSpec == InitRaise /\ [][NextRaise]_vars

\* ------------------------------------------------- alternative searches

\* /play of guild 1 has got a DRM error from the resolver; out has what the searches
\* for the three terms are going to give
InitSearch ==
    /\ queues = [g \in {} |-> <<>>]
    /\ title_cache = {}
    /\ audio_cache = [r \in Refs |-> 0]
    /\ vc = [g \in AllGuilds |-> IF g = 1 THEN "connected" ELSE "none"]
    /\ playing = [g \in AllGuilds |-> NoSrc]
    /\ preloads = [r \in Refs |-> 0]
    /\ task = [t \in Tasks |-> IF t = 1 THEN [IdleTask EXCEPT !.pc = "play", !.g = 1]
                                        ELSE IdleTask]
    /\ appended = [g \in AllGuilds |-> <<>>]
    /\ removed = [g \in AllGuilds |-> <<>>]
    /\ cache_first = NoRef
    /\ pending_playlists = [g \in AllGuilds |-> <<>>]
    /\ paused = [g \in AllGuilds |-> FALSE]
    /\ expanding = [g \in AllGuilds |-> <<>>]
    /\ old = NoOld
    /\ \E results \in [DOMAIN search_terms -> SearchResults] :
        out = [kind |-> "search", results |-> results]

\* the DRM branch runs the search and goes on with what it gives
AlternativeSearch(t) ==
    /\ task[t].pc = "play" /\ out.kind = "search"
    /\ \E message \in AltMessages, reject \in BOOLEAN :
        LET alt == try_alternative_source(out.results)
            r == play_drm_search(Store, task[t], out.results, message, alt.url, reject)
        IN  /\ InstallOut(r.S, [kind |-> "searched", results |-> out.results,
                                found |-> alt.found, url |-> alt.url,
                                tried |-> alt.tried])
            /\ task' = [task EXCEPT ![t] = r.tk]

NextSearch == \E t \in Tasks : AlternativeSearch(t)

SearchSpec == InitSearch /\ [][NextSearch]_vars

\* ---------------------------------------------------------------- claims

Queue(g) == IF g \in DOMAIN queues THEN queues[g] ELSE <<>>

IsPrefix(p, q) == Len(p) <= Len(q) /\ SubSeq(q, 1, Len(p)) = p

Messages(S) == {S.sent[i] : i \in 1..Len(S.sent)}

\* the pcs at which a coroutine is suspended inside play_next
InPlayNext == {"resolving", "sleep", "drop", "outer"}

\* the results the next step of coroutine t can have while it is inside play_next
SequencerResults(t) ==
    LET tk == task[t]
    IN  CASE tk.pc = "resolving" ->
               {play_next_resolved(Store, tk, o, rj) : o \in PreloadOutcomes, rj \in BOOLEAN}
          [] tk.pc = "sleep" -> {loop_body(Store, tk, rj) : rj \in BOOLEAN}
          [] tk.pc = "drop" -> {play_next_drop(Store, tk, rj) : rj \in BOOLEAN}
          [] tk.pc = "outer" -> {play_next_outer(Store, tk, rj) : rj \in BOOLEAN}
          [] tk.pc = "advance" -> {play_next(Store, tk, rj) : rj \in BOOLEAN}
          [] OTHER -> {}

\* r is the result of a step that entered play_next for guild g with queue q: with a voice
\* connection, an empty q ends in "Queue finished!" and otherwise the head of q is the
\* reference the invocation works on (it resolves, retries or plays it)
Advances(r, S, g) ==
    /\ r.S.ret # "" \/ r.tk.pc \in InPlayNext
    /\ VcConnected(S, g) /\ S.queues[g] = <<>> =>
           r.S.ret = "finished" /\ MsgQueueFinished \in Messages(r.S)
    /\ VcConnected(S, g) /\ S.queues[g] # <<>> =>
           \/ r.tk.pc \in InPlayNext /\ r.tk.url = Head(S.queues[g])
           \/ r.S.ret = "playing" /\ r.S.playing[g][1] = Head(S.queues[g])

\* C1: the references removed from a guild's queue, followed by the references still in
\* it, are the references appended to it, in the order of the appends (FIFO: nothing
\* lost, duplicated or reordered).
C1_Fifo == \A g \in GuildIds : removed[g] \o Queue(g) = appended[g]

\* two different references were appended and removed again in that order, the second
\* by the play_next that now plays it
C1_Witness ==
    \E g \in GuildIds :
        /\ appended[g] = <<"a", "b">>
        /\ removed[g] = <<"a", "b">>
        /\ is_playing(Store, g) /\ playing[g][1] = "b"

\* C2: a play_next whose _preload_song fails every time keeps the head in the queue
\* during the retries, gives up at the 3rd failed attempt with a notice to the channel,
\* then removes the head and enters play_next for the entry behind it; no step of the
\* sequencer appends to a queue.
C2_RetryBound ==
    \A t \in Tasks :
        LET tk == task[t]
            g == tk.g
        IN  /\ tk.pc = "resolving" =>
                /\ tk.retry_count = tk.loads - 1
                /\ \A o \in {"noinfo", "noaudio"}, rj \in BOOLEAN :
                    LET r == play_next_resolved(Store, tk, o, rj)
                    IN  /\ r.S.queues = queues
                        /\ IF tk.loads = 3
                           THEN r.tk.pc = "drop" /\ r.S.sent = <<MsgFailedAfter>>
                           ELSE r.tk.pc = "sleep" /\ r.S.sent = <<>>
            /\ tk.pc = "drop" /\ tk.cached_data = 0 =>
                /\ tk.loads = 3 /\ tk.retry_count = 3
                /\ \A rj \in BOOLEAN :
                    LET r == play_next_drop(Store, tk, rj)
                    IN  queues[g] # <<>> =>
                            /\ IsPrefix(Append(removed[g], Head(queues[g])), r.S.removed[g])
                            /\ Advances(r, queue_pop0(Store, g), g)
            /\ \A r \in SequencerResults(t) : r.S.appended = appended

\* the 3rd attempt on the head has failed and the drop is due; the failing reference
\* is the head and another entry is behind it
C2_Witness ==
    \E t \in Tasks :
        /\ task[t].pc = "drop" /\ task[t].cached_data = 0 /\ task[t].loads = 3
        /\ Queue(task[t].g) = <<task[t].url, "b">>

\* C3: while play_next retries a head it has resolved and whose hand-off to the player
\* fails, it removes no queue entry but that one: an invocation's loop removes at most
\* one reference.
C3_OnlyFailingTrackRemoved == \A t \in Tasks : Len(task[t].popped) <= 1

\* C4: with a voice connection, play_next returns only with the guild playing or with
\* the queue empty and "Queue finished!" sent.
C4_EndsPlayingOrFinished ==
    \A t \in Tasks :
        \A r \in SequencerResults(t) :
            r.S.ret # "" /\ VcConnected(r.S, task[t].g) =>
                \/ is_playing(r.S, task[t].g)
                \/ /\ r.S.queues[task[t].g] = <<>>
                   /\ MsgQueueFinished \in Messages(r.S)

\* C5: every end of a stream, with or without an error, schedules
\* _handle_playback_error; that coroutine enters play_next, after a notice to the channel
\* if there was an error, and play_next then works on the head of the queue.
C5_CallbackAdvances ==
    /\ \A g \in GuildIds, e \in BOOLEAN :
        is_playing(Store, g) =>
            player_ends(Store, g, e).scheduled =
                <<[IdleTask EXCEPT !.pc = "callback", !.g = g, !.err = e]>>
    /\ \A t \in Tasks, rj \in BOOLEAN :
        LET tk == task[t]
        IN  /\ tk.pc = "callback" =>
                LET r == handle_playback_error(Store, tk, rj)
                IN  IF tk.err
                    THEN r.S.sent = <<MsgPlaybackError>> /\ r.tk.pc = "advance"
                    ELSE /\ MsgPlaybackError \notin Messages(r.S)
                         /\ Advances(r, get_queue(Store, tk.g), tk.g)
            /\ tk.pc = "advance" =>
                Advances(play_next(Store, tk, rj), get_queue(Store, tk.g), tk.g)

\* a callback with an error is about to run with a track waiting in the queue
C5_Witness ==
    \E t \in Tasks :
        /\ task[t].pc = "callback" /\ task[t].err
        /\ VcConnected(Store, task[t].g) /\ Queue(task[t].g) # <<>>

\* C6: /stop with a voice client leaves the guild's queue in place and empty, nothing
\* playing and no voice client; without a voice client it only replies.
C6_Stop ==
    \A g \in GuildIds :
        LET S == stop(Store, g)
        IN  IF VcPresent(Store, g)
            THEN /\ g \in DOMAIN S.queues /\ S.queues[g] = <<>>
                 /\ ~is_playing(S, g)
                 /\ ~VcPresent(S, g)
                 /\ S.sent = <<MsgStopped>>
            ELSE /\ S.sent = <<MsgNotPlaying>>
                 /\ S.queues = queues /\ S.playing = playing /\ S.vc = vc
                 /\ S.scheduled = <<>>

\* /stop has run on a queue that held a track while another was playing
C6_Witness ==
    \E g \in GuildIds :
        /\ ~VcPresent(Store, g) /\ ~is_playing(Store, g)
        /\ Queue(g) = <<>> /\ Len(removed[g]) = 2
        /\ \E t \in Tasks : task[t].pc = "callback" /\ task[t].g = g

\* C7: the answer to a resolution that play_next awaited while /stop ran is discarded:
\* it is not handed to the player and it changes no queue.
C7_StaleResolutionDiscarded ==
    \A t \in Tasks :
        task[t].pc = "resolving" /\ task[t].stale =>
            \A o \in PreloadOutcomes, rj \in BOOLEAN :
                LET r == play_next_resolved(Store, task[t], o, rj)
                IN  r.S.queues = queues /\ r.S.playing = playing

\* C8: /skip never changes a queue; while a track plays it stops the stream, and the
\* callback this triggers makes play_next work on the head of the queue, or end in
\* "Queue finished!" if the queue is empty; otherwise it only replies.
C8_Skip ==
    \A g \in GuildIds :
        LET S == skip(Store, g)
        IN  /\ S.queues = queues /\ S.removed = removed /\ S.appended = appended
            /\ S.vc = vc
            /\ IF VcPresent(Store, g) /\ is_playing(Store, g)
               THEN /\ ~is_playing(S, g)
                    /\ S.sent = <<MsgSkipped>>
                    /\ Len(S.scheduled) = 1
                    /\ S.scheduled[1].pc = "callback" /\ S.scheduled[1].g = g
                    /\ \A rj \in BOOLEAN :
                        LET r == handle_playback_error(S, S.scheduled[1], rj)
                        IN  /\ Advances(r, get_queue(S, g), g)
                            /\ Queue(g) = <<>> => ~is_playing(r.S, g) /\ r.tk = IdleTask
               ELSE /\ S.playing = playing
                    /\ S.scheduled = <<>>
                    /\ S.sent = IF VcPresent(Store, g) THEN <<MsgNoSong>> ELSE <<MsgNotPlaying>>

\* a track was skipped with another waiting, and the callback is about to advance
C8_Witness ==
    \E g \in GuildIds, t \in Tasks :
        /\ task[t].pc = "callback" /\ task[t].g = g /\ ~task[t].err
        /\ VcConnected(Store, g) /\ ~is_playing(Store, g)
        /\ Queue(g) = <<"b">> /\ removed[g] = <<"a">>

\* C9: /play of a single track appends its reference at the tail of the guild's queue,
\* once, and records its metadata, without touching the player; it then enters play_next
\* only if nothing is playing: while a track plays, the queue and the track are left as
\* they are.
C9_PlayEnqueues ==
    \A t \in Tasks :
        LET tk == task[t]
            g == tk.g
        IN  /\ tk.pc = "play" =>
                \A ref \in Refs :
                    LET r == play_resolved(Store, tk, [kind |-> "track", ref |-> ref], FALSE)
                    IN  /\ r.S.queues[g] = Append(Queue(g), ref)
                        /\ \A h \in DOMAIN queues \ {g} : r.S.queues[h] = queues[h]
                        /\ ref \in r.S.title_cache
                        /\ r.S.playing = playing
                        /\ r.tk.pc = "play_check"
            /\ tk.pc = "play_check" /\ VcPresent(Store, g) =>
                \A rj \in BOOLEAN :
                    LET r == play_check(Store, tk, rj)
                    IN  IF is_playing(Store, g)
                        THEN /\ r.S.queues = queues /\ r.S.playing = playing
                             /\ r.S.ret = "" /\ r.tk = IdleTask
                        ELSE Advances(r, Store, g)

\* a second track has been enqueued behind the one that is playing
C9_Witness ==
    \E t \in Tasks :
        /\ task[t].pc = "play_check"
        /\ is_playing(Store, task[t].g)
        /\ Queue(task[t].g) = <<"b">> /\ playing[task[t].g][1] = "a"

\* C10: in the DRM fallback, an alternative U found with message X and resolved to a
\* reference makes /play send X, append that reference to the guild's queue and record
\* its metadata, and enter play_next if nothing is playing; with no alternative, or
\* none that resolves to a reference, nothing is enqueued and the reply is
\* "Could not find a playable alternative".
C10_DrmFallback ==
    \A t \in Tasks :
        task[t].pc = "play" =>
            \A alt \in AltResults, rj \in BOOLEAN :
                LET tk == task[t]
                    g == tk.g
                    r == play_resolved(Store, tk, alt, rj)
                IN  IF alt.found /\ alt.info \in Refs
                    THEN /\ r.S.appended[g] = Append(appended[g], alt.info)
                         /\ \E i \in 1..Len(r.S.sent) : r.S.sent[i] = MsgAltOk(alt.message)
                         /\ alt.info \in r.S.title_cache
                         /\ VcPresent(Store, g) =>
                                IF is_playing(Store, g)
                                THEN r.S.ret = "" /\ r.tk = IdleTask
                                     /\ r.S.queues[g] = Append(Queue(g), alt.info)
                                     /\ r.S.playing = playing
                                ELSE Advances(r, queue_append(Store, g, alt.info), g)
                    ELSE /\ r.S.appended = appended /\ r.S.queues = queues
                         /\ r.S.sent[Len(r.S.sent)] = MsgNoAlternative
                         /\ r.tk = IdleTask

\* the fallback has enqueued "b", found as an alternative, behind "a"
C10_Witness ==
    \E g \in GuildIds, t \in Tasks :
        /\ appended[g] = <<"a", "b">> /\ Queue(g) = <<"a", "b">>
        /\ task[t].pc = "resolving" /\ task[t].url = "a"
        /\ \A u \in Tasks : task[u].pc \in {"idle", "resolving"}

\* C20: _preload_song on a reference that is in the audio cache returns the cached entry
\* without a call of the resolver and leaves both caches as they are; a play_next that
\* finds its head in the audio cache does not resolve it again and hands the cached
\* entry's source to the player.
C20_PreloadIdempotent ==
    \A t \in Tasks, rj \in BOOLEAN :
        LET tk == task[t]
        IN  /\ tk.pc = "sleep" /\ tk.cached_data = 0 /\ audio_cache[tk.url] # 0 =>
                LET r == loop_body(Store, tk, rj)
                IN  /\ r.tk.pc # "resolving"
                    /\ r.tk.pc # "idle" => r.tk.cached_data = audio_cache[tk.url]
                    /\ r.S.ret = "playing" => r.S.playing[tk.g] = <<tk.url, audio_cache[tk.url]>>
                    /\ r.S.audio_cache = audio_cache /\ r.S.title_cache = title_cache
            /\ tk.pc = "advance" /\ VcConnected(Store, tk.g) /\ Queue(tk.g) # <<>>
                 /\ audio_cache[Head(Queue(tk.g))] # 0 =>
                LET r == play_next(Store, tk, rj)
                    h == Head(Queue(tk.g))
                IN  /\ r.tk.pc # "resolving" /\ r.tk.loads = 0
                    /\ r.S.ret = "playing" => r.S.playing[tk.g] = <<h, audio_cache[h]>>
                    /\ r.S.audio_cache = audio_cache /\ r.S.title_cache = title_cache

\* play_next sleeps after a failed resolution of its head while a background preload
\* has put the head into the audio cache
C20_Witness ==
    \E t \in Tasks :
        /\ task[t].pc = "sleep" /\ task[t].cached_data = 0
        /\ audio_cache[task[t].url] # 0
        /\ Queue(task[t].g) # <<>> /\ Head(Queue(task[t].g)) = task[t].url

\* what a command may change besides the player: the queues and the caches
Data(S) == <<S.queues, S.title_cache, S.audio_cache, S.pending_playlists>>

\* C19: /pause changes the player only while a track plays and is not paused, /resume
\* only while the player is paused; otherwise each replies with a message about the
\* state and leaves the player as it is.  Neither changes a queue or a cache, and pause
\* followed by resume leaves the same track playing.
C19_PauseResume ==
    \A g \in GuildIds :
        LET P == pause(Store, g)
            R == resume(Store, g)
        IN  /\ Data(P) = Data(Store) /\ Data(R) = Data(Store)
            /\ P.playing = playing /\ R.playing = playing
            /\ P.vc = vc /\ R.vc = vc
            /\ P.scheduled = <<>> /\ R.scheduled = <<>>
            /\ IF VcPresent(Store, g) /\ is_playing(Store, g)
               THEN /\ is_paused(P, g) /\ P.sent = <<MsgPaused>>
                    /\ LET PR == resume([P EXCEPT !.sent = <<>>], g)
                       IN  /\ is_playing(PR, g) /\ PR.playing = playing
                           /\ PR.sent = <<MsgResumed>>
               ELSE /\ P.paused = paused
                    /\ P.sent \in {<<MsgNotPlaying>>, <<MsgNoMusicPlaying>>, <<MsgAlreadyPaused>>}
            /\ IF VcPresent(Store, g) /\ is_paused(Store, g)
               THEN is_playing(R, g) /\ R.sent = <<MsgResumed>>
               ELSE /\ R.paused = paused
                    /\ R.sent \in {<<MsgNotPlaying>>, <<MsgNotPaused>>}

\* the player is paused on "a" with "b" waiting in the queue
C19_Witness ==
    \E g \in GuildIds :
        /\ is_paused(Store, g) /\ playing[g][1] = "a"
        /\ Queue(g) = <<"b">>

\* C14: /queue on a queue of n references lists the first min(n, 10) of them in queue
\* order under "Up Next", by title (by the placeholder if the reference has no
\* metadata), and adds the field "(n - 10) more songs in queue" exactly if n > 10; it
\* changes neither the contents of a queue nor a cache.
C14_ShowQueue ==
    \A g \in GuildIds :
        LET r == show_queue(Store, g)
            q == Queue(g)
            n == Len(q)
            f == r.card.fields
        IN  /\ f[2].name = "Up Next"
            /\ IF n = 0 THEN f[2].value = TxtNoSongs
               ELSE /\ Len(f[2].value) = Min(n, 10)
                    /\ \A i \in 1..Min(n, 10) :
                        f[2].value[i] =
                            <<i, IF q[i] \in title_cache THEN Title(q[i]) ELSE TxtLoading>>
            /\ IF n > 10
               THEN Len(f) = 3 /\ f[3] = Field("And more...", TxtMore(n - 10))
               ELSE Len(f) = 2
            /\ r.S.queues[g] = q
            /\ \A h \in DOMAIN queues : r.S.queues[h] = queues[h]
            /\ r.S.title_cache = title_cache /\ r.S.audio_cache = audio_cache
            /\ r.S.playing = playing /\ r.S.vc = vc

\* /queue has answered for a queue of 12 references: 10 titles and "2 more songs"
C14_Witness ==
    /\ out # NoOut
    /\ Len(Queue(1)) = 12
    /\ Len(out.fields) = 3
    /\ Len(out.fields[2].value) = 10
    /\ \A i \in 1..10 : out.fields[2].value[i] = <<i, Title(Queue(1)[i])>>
    /\ out.fields[3].value = TxtMore(2)

\* C15: the card of /queue has a "Now Playing" and an "Up Next" field in every state,
\* and where data is missing the field shows a placeholder: "Now Playing" shows the
\* title of the reference that plays or a placeholder, never anything else.
C15_ShowQueuePlaceholders ==
    \A g \in GuildIds :
        LET f == show_queue(Store, g).card.fields
        IN  /\ f[1].name = "Now Playing" /\ f[2].name = "Up Next"
            /\ \/ f[1].value \in {TxtNothingPlaying, TxtUnknownTrack}
               \/ is_playing(Store, g) /\ f[1].value = Title(playing[g][1])

\* the resolvable entries of a playlist, in order
Resolvable(entries) == SelectSeq(entries, LAMBDA e : e # NoRef)

\* C12: /play on a playlist query registers the query in the guild's pending playlists
\* and appends to the queue the playlist's first resolvable entry and nothing else; the
\* rest of the command appends nothing; the entries behind the first are appended, in
\* order, by process_pending_playlists when the resolver answers it.
C12_PlaylistEager ==
    /\ \A t \in Tasks :
        LET tk == task[t]
            g == tk.g
        IN  /\ tk.pc = "play" =>
                \A pl \in Playlists :
                    LET r == play_resolved(Store, tk, [kind |-> "playlist", entries |-> pl], FALSE)
                        res == Resolvable(pl)
                    IN  /\ r.S.pending_playlists[g] = Append(pending_playlists[g], pl)
                        /\ r.S.queues[g] =
                               Queue(g) \o (IF res = <<>> THEN <<>> ELSE <<res[1]>>)
                        /\ res # <<>> => res[1] \in r.S.title_cache
                        /\ r.S.expanding[g] =
                               (IF res = <<>> THEN expanding[g]
                                ELSE Append(expanding[g], NewDrain))
                        /\ r.tk.pc = "play_check"
            /\ tk.pc = "play_check" =>
                \A rj \in BOOLEAN : play_check(Store, tk, rj).S.appended = appended
    /\ \A g \in GuildIds : \A k \in DOMAIN expanding[g] :
        /\ expanding[g][k].pos = 0 => expand_start(Store, g, k).appended = appended
        /\ expanding[g][k].reporting => expand_reported(Store, g, k).appended = appended
        /\ Started(expanding[g][k]) =>
            LET pl == Awaited(g, k)
            IN  \A o \in ExpandOutcomes :
                    expand_resolved(Store, g, k, o).appended[g] =
                        appended[g] \o (IF o = "ok" /\ pl # <<>>
                                        THEN Resolvable(Tail(pl)) ELSE <<>>)

\* a playlist of three entries is in the queue, the first from /play, and the
\* expansion has ended
C12_Witness ==
    /\ appended[1] = <<"a", "b", "a">>
    /\ expanding[1] = <<>> /\ pending_playlists[1] = <<>>
    /\ \E t \in Tasks : task[t].pc = "play_check"

\* the references the expansion step of the k-th task of guild g creates preload
\* tasks for, and the entries it appends
ExpansionRequested(g, k) == expand_resolved(Store, g, k, "ok").requested
ExpansionAppended(g, k) ==
    LET pl == Awaited(g, k)
    IN  IF pl = <<>> THEN <<>> ELSE Resolvable(Tail(pl))

Untouched(S, h) ==
    /\ h \in DOMAIN S.queues <=> h \in DOMAIN queues
    /\ h \in DOMAIN queues => S.queues[h] = queues[h]
    /\ S.pending_playlists[h] = pending_playlists[h]

\* the stores that the steps which can run next for guild g leave: its commands, its
\* player's end, the next step of each of its coroutines and of its playlist expansion
StepsOf(g) ==
    {play_begin(Store, [IdleTask EXCEPT !.g = g], pre).S : pre \in StreamingResults}
    \cup {skip(Store, g), stop(Store, g), pause(Store, g), resume(Store, g),
          show_queue(Store, g).S}
    \cup (IF has_player(Store, g)
          THEN {player_ends(Store, g, e) : e \in BOOLEAN} ELSE {})
    \cup UNION {
           IF expanding[g][k].pos = 0 THEN {expand_start(Store, g, k)}
           ELSE IF expanding[g][k].reporting THEN {expand_reported(Store, g, k)}
           ELSE {expand_resolved(Store, g, k, o) : o \in ExpandOutcomes}
           : k \in DOMAIN expanding[g]}
    \cup UNION {
           IF task[t].g # g \/ task[t].pc = "idle" THEN {}
           ELSE IF task[t].pc = "play"
           THEN {play_resolved(Store, task[t], res, rj).S :
                    res \in ResolverResults \cup AltResults
                            \cup {[kind |-> "playlist", entries |-> pl] : pl \in Playlists},
                    rj \in BOOLEAN}
           ELSE {task_step(Store, task[t], o, rj).S : o \in PreloadOutcomes, rj \in BOOLEAN}
           : t \in Tasks}

\* C17: whatever runs for a guild leaves the queue and the pending playlists of every
\* other guild as they are, and so does a background preload.
C17_GuildsIsolated ==
    /\ \A g \in AllGuilds : \A h \in AllGuilds \ {g}, S \in StepsOf(g) : Untouched(S, h)
    /\ \A h \in AllGuilds, url \in Refs, o \in PreloadOutcomes :
        Untouched(preload_store(Store, url, o), h)

\* the expansion for guild 1 has ended and has reset its pending playlists, while
\* guild 2 has a reference in its queue and a playlist pending
C17_Witness ==
    /\ Len(appended[1]) = 2 /\ expanding[1] = <<>> /\ pending_playlists[1] = <<>>
    /\ Queue(2) # <<>> /\ pending_playlists[2] # <<>>

\* C18: an entry of the metadata cache or the audio cache made for one guild is not
\* visible for another: for a guild that has had no queue yet, so that nothing has been
\* resolved for it, the look-up of any reference misses in both caches.
C18_CachesPerGuild ==
    \A g \in AllGuilds :
        g \notin DOMAIN queues =>
            \A url \in Refs : url \notin title_cache /\ ~preload_song_hit(Store, url)

\* the failure classes in the order of their tests, and the phrases of each
class_order == <<"drm", "unavailable", "age", "unsupported", "geo", "network">>
class_phrases ==
    [drm |-> {"[drm]", "drm protection"}, unavailable |-> {"video unavailable"},
     age |-> {"sign in to confirm your age"}, unsupported |-> {"not a supported url"},
     geo |-> {"geo restriction"}, network |-> {"network error", "connection error"}]

\* text has a phrase of class c, in whatever case
Matches(text, c) == \E i \in DOMAIN text : text[i][1] \in class_phrases[c]

\* the first class in the order that text matches, "unknown" if it matches none
FirstMatch(text) ==
    IF \E k \in DOMAIN class_order : Matches(text, class_order[k])
    THEN class_order[CHOOSE k \in DOMAIN class_order :
                        /\ Matches(text, class_order[k])
                        /\ \A j \in 1..(k - 1) : ~Matches(text, class_order[j])]
    ELSE "unknown"

\* C11: /play puts a resolver failure into the first class, in the order drm,
\* unavailable, age, unsupported, geo, network, a phrase of which its text has, in
\* whatever case, and into unknown if there is none.  It starts the search for an
\* alternative exactly for drm; for every other class it sends one reply, which names
\* the class, or carries the text as raised for unknown, and ends without a change.
C11_FailureClasses ==
    \A t \in Tasks :
        (task[t].pc = "play" /\ out.kind = "raised") =>
            LET text == out.text
                c == FirstMatch(text)
            IN  /\ classify(text) = c
                /\ \A alt \in AltResults, rj \in BOOLEAN :
                    LET r == play_raised(Store, task[t], text, alt, rj)
                    IN  /\ c = "drm" <=> MsgDrmDetected \in Messages(r.S)
                        /\ c = "drm" => r = play_drm(Store, task[t], alt, rj)
                        /\ c # "drm" =>
                            /\ r.S.sent = <<IF c = "unknown" THEN MsgErrorLoading(text)
                                                             ELSE MsgResolverError(c)>>
                            /\ Data(r.S) = Data(Store)
                            /\ r.tk = IdleTask

\* a text with phrases of two classes, with capitals, got the reply of the class that
\* is tested first
C11_Witness ==
    /\ out.kind = "replied"
    /\ out.text = <<<<"network error", "Mixed">>, <<"video unavailable", "Mixed">>>>
    /\ out.sent = <<MsgResolverError("unavailable")>>

\* C16: for a query https://youtu.be/<id>, with or without a query string behind it,
\* /play hands the resolver https://www.youtube.com/watch?v=<id>.
C16_ShortLinkNormalised ==
    (out.kind = "query" /\ out.query \in ShortLinks) =>
        \A pre \in StreamingResults \ {[kind |-> "direct"]} :
            LET r == play_query(Store, [IdleTask EXCEPT !.g = 1], out.query, pre)
            IN  /\ r.tk.pc = "play"
                /\ resolver_query(out.query, pre) = watch_url(<<out.query[6]>>)

\* C21: a play_next that has no audio entry for the reference it works on has failed
\* fewer than 3 times and has removed nothing from the queue; no step it takes without
\* getting an entry removes anything: not its entry with an uncached head, not a failed
\* resolution, the third included, not the wake-up for the next attempt.  The head goes
\* in the step that gets an entry, or in the step behind the notice of the 3rd failure.
C21_HeadKeptWhileResolving ==
    \A t \in Tasks :
        LET tk == task[t]
            g == tk.g
        IN  /\ (tk.pc \in {"resolving", "sleep"} /\ tk.cached_data = 0) =>
                tk.retry_count < max_retries /\ tk.popped = <<>>
            /\ tk.popped # <<>> => tk.cached_data # 0
            /\ tk.pc = "drop" => tk.retry_count = max_retries
            /\ tk.pc = "resolving" => tk.cached_data = 0
            /\ tk.pc = "resolving" =>
                \A o \in PreloadOutcomes, rj \in BOOLEAN :
                    LET r == play_next_resolved(Store, tk, o, rj)
                    IN  IF o = "ok"
                        THEN \/ r.S.removed[g] = removed[g]
                             \/ /\ Queue(g) # <<>>
                                /\ r.S.removed[g] = Append(removed[g], Head(Queue(g)))
                        ELSE /\ r.S.queues = queues /\ r.S.removed = removed
                             /\ r.tk.pc = IF tk.retry_count = max_retries - 1
                                          THEN "drop" ELSE "sleep"
            /\ (tk.pc = "sleep" /\ tk.cached_data = 0 /\ ~preload_song_hit(Store, tk.url)) =>
                \A rj \in BOOLEAN :
                    LET r == loop_body(Store, tk, rj)
                    IN  r.S.queues = queues /\ r.S.removed = removed /\ r.tk.pc = "resolving"
            /\ (tk.pc = "advance" /\ VcConnected(Store, g) /\ Queue(g) # <<>>
                    /\ ~preload_song_hit(Store, Head(Queue(g)))) =>
                \A rj \in BOOLEAN :
                    LET r == play_next(Store, tk, rj)
                    IN  r.S.queues = queues /\ r.S.removed = removed /\ r.tk.pc = "resolving"

\* a play_next awaits its third resolution of the head, which is still in the queue
C21_Witness ==
    \E t \in Tasks :
        /\ task[t].pc = "resolving" /\ task[t].retry_count = 2 /\ task[t].loads = 3
        /\ Queue(task[t].g) # <<>> /\ Head(Queue(task[t].g)) = task[t].url

\* store S with nothing in the queues, the caches and the pending playlists
Blank(S) ==
    [S EXCEPT !.queues = [g \in DOMAIN @ |-> <<>>],
              !.title_cache = {},
              !.audio_cache = [r \in Refs |-> 0],
              !.cache_first = NoRef,
              !.pending_playlists = [g \in AllGuilds |-> <<>>]]

\* C22: the end of a stream, which the player handles on its own thread with the
\* after-callback, changes no queue, no cache and no pending playlist and does not depend
\* on them: it submits _handle_playback_error(e, guild, text_channel) to the loop and
\* does nothing else.  What follows for the queue is done by that coroutine on the loop.
C22_SingleWriter ==
    \A g \in GuildIds, e \in BOOLEAN :
        has_player(Store, g) =>
            LET S == player_ends(Store, g, e)
                B == player_ends(Blank(Store), g, e)
                submitted == [IdleTask EXCEPT !.pc = "callback", !.g = g, !.err = e]
            IN  /\ Data(S) = Data(Store)
                /\ S.cache_first = cache_first
                /\ S.appended = appended /\ S.removed = removed
                /\ S.sent = <<>> /\ S.requested = <<>>
                /\ S.scheduled = <<submitted>>
                /\ B.scheduled = S.scheduled /\ B.playing = S.playing /\ B.vc = S.vc
                /\ Data(B) = Data(Blank(Store))

\* a stream has ended with references in the queue and entries in the caches: the
\* coroutine the callback submitted waits for the loop, and the queue is as it was
C22_Witness ==
    \E t \in Tasks :
        /\ task[t].pc = "callback" /\ ~has_player(Store, task[t].g)
        /\ Queue(task[t].g) # <<>> /\ removed[task[t].g] \o Queue(task[t].g) = appended[task[t].g]
        /\ audio_cache[Head(Queue(task[t].g))] > 0

\* C23: play_next for a guild without a voice client, or with one that is not connected,
\* returns at once: the store is as before, queues (no queue is made for the guild
\* either), caches, pending playlists and player included, nothing is sent, no preload
\* is started and no coroutine is scheduled.
C23_NoVoiceNoOp ==
    /\ \A g \in GuildIds, v \in {"none", "disconnected"}, rj \in BOOLEAN :
        LET S == [Store EXCEPT !.vc[g] = v]
            r == play_next(S, [IdleTask EXCEPT !.pc = "advance", !.g = g], rj)
        IN  r.S = [S EXCEPT !.ret = "novoice"] /\ r.tk = IdleTask
    /\ \A t \in Tasks, rj \in BOOLEAN :
        (task[t].pc = "advance" /\ ~VcConnected(Store, task[t].g)) =>
            LET r == play_next(Store, task[t], rj)
            IN  /\ Data(r.S) = Data(Store)
                /\ r.S.playing = playing /\ r.S.vc = vc
                /\ r.S.sent = <<>> /\ r.S.requested = <<>> /\ r.S.scheduled = <<>>
                /\ r.tk = IdleTask

\* play_next is about to run for a guild that has lost its voice client and has a
\* reference in its queue
C23_Witness ==
    \E t \in Tasks :
        /\ task[t].pc = "advance" /\ ~VcPresent(Store, task[t].g)
        /\ Queue(task[t].g) # <<>>

\* the results of the steps in which the play_next of coroutine t can hand a source to
\* the player for the reference it works on
PlayAttempts(t) ==
    LET tk == task[t]
    IN  CASE tk.pc = "resolving" ->
               {play_next_resolved(Store, tk, "ok", rj) : rj \in BOOLEAN}
          [] tk.pc = "sleep" /\ (tk.cached_data # 0 \/ preload_song_hit(Store, tk.url)) ->
               {loop_body(Store, tk, rj) : rj \in BOOLEAN}
          [] tk.pc = "advance" /\ VcConnected(Store, tk.g) /\ Queue(tk.g) # <<>>
                /\ preload_song_hit(Store, Head(Queue(tk.g))) ->
               {play_next(Store, tk, rj) : rj \in BOOLEAN}
          [] OTHER -> {}

\* the references among the first preload_count of q that have no audio entry in S
ToPreload(S, q) ==
    SelectSeq(SubSeq(q, 1, Min(preload_count, Len(q))), LAMBDA u : S.audio_cache[u] = 0)

\* C24: a play attempt of play_next first removes the head of the queue, then hands the
\* source of its audio entry to the player; if the player takes it, it then announces
\* "Now playing" with the title of that entry and starts preload_next_tracks, which
\* looks at the queue without the removed head.  If the player does not take the
\* source, the head is removed all the same, and nothing is announced or preloaded.
C24_PlayOrder ==
    \A t \in Tasks : \A r \in PlayAttempts(t) :
        LET g == task[t].g
            url == IF task[t].pc = "advance" THEN Head(Queue(g)) ELSE task[t].url
        IN  Queue(g) # <<>> =>
                /\ r.S.queues[g] = Tail(Queue(g))
                /\ r.S.removed[g] = Append(removed[g], Head(Queue(g)))
                /\ IF r.S.ret = "playing"
                   THEN /\ r.S.playing[g][1] = url /\ r.S.playing[g][2] > 0
                        /\ r.S.sent = <<MsgNowPlaying(Title(r.S.playing[g][1]))>>
                        /\ r.S.requested = ToPreload(r.S, Tail(Queue(g)))
                   ELSE /\ r.S.playing = playing
                        /\ \A u \in Refs : MsgNowPlaying(Title(u)) \notin Messages(r.S)
                        /\ r.S.requested = <<>>

\* "a" plays, removed from the head of the queue, and a preload runs for "b", the
\* new head
C24_Witness ==
    \E g \in GuildIds :
        /\ is_playing(Store, g) /\ playing[g][1] = "a"
        /\ removed[g] = <<"a">> /\ Queue(g) = <<"b">>
        /\ preloads["b"] > 0

\* C25: whatever happens in _preload_song, it returns and does not raise; if the
\* resolver raises or returns nothing, if there is no stream URL, or if building the
\* source raises, it returns None and the audio cache is as before.  Its effects are
\* those play_next and the background preloads go by.
C25_PreloadFailsQuietly ==
    \A url \in Refs, cause \in PreloadCauses :
        LET r == preload_song(Store, url, cause)
        IN  /\ r.kind = "return"
            /\ cause # "ok" =>
                /\ r.value = 0
                /\ r.S.audio_cache = audio_cache /\ r.S.cache_first = cache_first
            /\ cause = "ok" => r.value > 0 /\ r.S.audio_cache[url] = r.value
            /\ r.S.queues = queues /\ r.S.pending_playlists = pending_playlists
            /\ r.S = preload_store(Store, url, cause_outcome(cause))
            /\ r.value = preload_entry(Store, url, cause_outcome(cause))

\* play_next has got None from _preload_song once, and the reference has no audio entry
C25_Witness ==
    \E t \in Tasks :
        /\ task[t].pc = "sleep" /\ task[t].retry_count = 1 /\ task[t].loads = 1
        /\ task[t].cached_data = 0 /\ audio_cache[task[t].url] = 0

MaxCount == 3               \* the counts preload_next_tracks is looked at with

\* the number of times u occurs in the sequence q
Occurrences(q, u) == Cardinality({i \in DOMAIN q : q[i] = u})

\* C29: preload_next_tracks(guild, count) starts a background _preload_song for each of
\* the first min(count, len(queue)) entries of the queue whose reference has no audio
\* entry, in the order of the queue, and for nothing else; the queue and the caches are
\* as before.  play_next calls it with the default count of 2.
C29_PreloadNextTracks ==
    \A g \in GuildIds, count \in 0..MaxCount :
        LET S == preload_next_tracks(Store, g, count)
            q == Queue(g)
            prefix == SubSeq(q, 1, Min(count, Len(q)))
            wanted == SelectSeq(prefix, LAMBDA u : audio_cache[u] = 0)
        IN  /\ S.requested = wanted
            /\ \A u \in Refs : S.preloads[u] = preloads[u] + Occurrences(wanted, u)
            /\ S.queues[g] = q
            /\ \A h \in DOMAIN queues : S.queues[h] = queues[h]
            /\ S.title_cache = title_cache /\ S.audio_cache = audio_cache
            /\ S.appended = appended /\ S.removed = removed
            /\ S.pending_playlists = pending_playlists
            /\ S.sent = <<>> /\ S.playing = playing

\* a track has started with three references behind it in the queue: a preload runs
\* for the first, none for the second, which has an audio entry, and none for the third
C29_Witness ==
    \E g \in GuildIds :
        /\ is_playing(Store, g) /\ removed[g] # <<>>
        /\ Len(Queue(g)) = 3
        /\ audio_cache[Queue(g)[1]] = 0 /\ preloads[Queue(g)[1]] = 1
        /\ audio_cache[Queue(g)[2]] > 0 /\ preloads[Queue(g)[2]] = 0
        /\ Queue(g)[3] = Queue(g)[2]

\* C30: _try_alternative_source searches for the phrase with " official audio", then
\* with " lyrics", then as it is, and stops at the first search whose first result has
\* a reference: it returns that reference as found.  A search that raises, gives no
\* result or gives a result without reference makes it go on with the next term; it
\* returns not found only if none of the three searches gives a reference.
C30_AlternativeOrder ==
    out.kind = "search" =>
        LET results == out.results
            r == try_alternative_source(results)
            hits == {k \in DOMAIN search_terms : results[k] \in Refs}
        IN  /\ Len(search_terms) = 3
            /\ r.found <=> hits # {}
            /\ r.found =>
                \E k \in hits :
                    /\ \A j \in hits : k <= j
                    /\ r.url = results[k]
                    /\ r.tried = SubSeq(search_terms, 1, k)
            /\ ~r.found => r.tried = search_terms /\ r.url = NoRef

\* the first search raised, the second gave nothing, the third gave "b": found, with
\* "b", after all three terms
C30_Witness ==
    /\ out.kind = "searched"
    /\ out.results = <<"raise", "none", "b">>
    /\ out.found /\ out.url = "b" /\ out.tried = search_terms

\* C26: the background expansion skips the entry /play enqueued: when the expansion of
\* a playlist resolves, with the entry of /play the one reference appended for the guild
\* so far and none removed from its queue, the references appended are then those of
\* the playlist's entries that have one, each once and in the order of the playlist.
C26_EachEntryOnce ==
    \A g \in GuildIds : \A k \in DOMAIN expanding[g] :
        (/\ Started(expanding[g][k])
         /\ removed[g] = <<>>
         /\ appended[g] = <<first_resolvable(Awaited(g, k))>>)
        => expand_resolved(Store, g, k, "ok").appended[g] = Resolvable(Awaited(g, k))

\* C27: an error while a pending playlist is expanded is reported to the text channel
\* and does not end the pass: the queue, the references appended and the pending
\* playlists are as before, the task stays in its loop over the same list, and once the
\* message is sent it awaits the next query of that list, ending the pass only behind
\* the last.
C27_ErrorKeepsPass ==
    \A g \in GuildIds : \A k \in DOMAIN expanding[g] :
        LET d == expanding[g][k]
            L == drain_list(Store, g, d)
        IN  /\ Started(d) =>
                LET r == expand_resolved(Store, g, k, "raise")
                IN  /\ r.sent = <<MsgPlaylistError>>
                    /\ r.queues = queues /\ r.appended = appended
                    /\ r.pending_playlists = pending_playlists
                    /\ r.expanding[g] = [expanding[g] EXCEPT ![k].reporting = TRUE]
            /\ d.reporting =>
                LET r == expand_reported(Store, g, k)
                IN  /\ r.queues = queues /\ r.appended = appended
                    /\ d.pos < Len(L) =>
                        /\ r.pending_playlists = pending_playlists
                        /\ Len(r.expanding[g]) = Len(expanding[g])
                        /\ Started(r.expanding[g][k])
                        /\ r.expanding[g][k].pos = d.pos + 1
                        /\ drain_list(r, g, r.expanding[g][k]) = L
                    /\ d.pos = Len(L) =>
                        /\ r.pending_playlists[g] = <<>>
                        /\ Len(r.expanding[g]) = Len(expanding[g]) - 1

\* the resolver has raised for the first of two pending playlists, whose /play put a
\* reference in the queue, and the task awaits its message to the channel
C27_Witness ==
    /\ Len(pending_playlists[1]) = 2
    /\ Queue(1) # <<>>
    /\ \E k \in DOMAIN expanding[1] :
        /\ expanding[1][k].reporting /\ expanding[1][k].live
        /\ expanding[1][k].pos = 1

\* the step that ends the pass of the k-th task of guild g, if its next step does
EndOfPass(g, k) ==
    LET d == expanding[g][k]
    IN  IF d.pos = 0 THEN {expand_start(Store, g, k)}
        ELSE IF d.reporting THEN {expand_reported(Store, g, k)}
        ELSE {expand_resolved(Store, g, k, "ok"), expand_resolved(Store, g, k, "none")}

\* C28: when a pass ends the pending playlists of the guild are empty, and no query is
\* dropped without expansion: each query in the list the reset drops has been awaited
\* by the task that ends, which iterated that list, or is awaited in its turn by
\* another task that iterates it.
C28_NoQueryDiscarded ==
    \A g \in GuildIds : \A k \in DOMAIN expanding[g] : \A r \in EndOfPass(g, k) :
        Len(r.expanding[g]) < Len(expanding[g]) =>
            /\ r.pending_playlists[g] = <<>>
            /\ pending_playlists[g] # <<>> =>
                \/ expanding[g][k].live
                \/ \E j \in DOMAIN expanding[g] : j # k /\ expanding[g][j].live

\* C31: audio-cache entries are never evicted or replaced: a reference that has an
\* entry in the audio cache has the same entry after every step.
C31_EntriesKept ==
    [][\A r \in Refs : audio_cache[r] # 0 => audio_cache'[r] = audio_cache[r]]_vars

\* the results of the step that play_next invocation t takes inside its loop, with a
\* player that rejects no source: the resolver's answer arrives, or the sleep ends
LoopSteps(t) ==
    IF task[t].pc = "resolving"
    THEN {play_next_resolved(Store, task[t], o, FALSE) : o \in PreloadOutcomes}
    ELSE IF task[t].pc = "sleep" THEN {loop_body(Store, task[t], FALSE)}
    ELSE {}

\* C32: the player is asked to start a track only while it is idle: a step of
\* play_next's loop that gets to voice_client.play (it has removed the head of the queue,
\* which it does right before the call) runs while the guild's player plays nothing.
C32_PlayOnlyWhenIdle ==
    \A t \in Tasks : \A r \in LoopSteps(t) :
        r.S.removed[task[t].g] # removed[task[t].g] => ~is_playing(Store, task[t].g)

\* C33: the reference play_next removes from the queue is the one whose audio entry it
\* hands to the player: a step of its loop that removes the head of the queue removes
\* the reference the invocation read as queue[0].
C33_PoppedIsRead ==
    \A t \in Tasks : \A r \in LoopSteps(t) :
        LET g == task[t].g
        IN  r.S.removed[g] # removed[g] => r.S.removed[g] = Append(removed[g], task[t].url)

\* the references a step that leaves store S has removed from the queue of guild g
Removes(S, g) == SubSeq(S.removed[g], Len(removed[g]) + 1, Len(S.removed[g]))

\* C34: no track is dropped silently.  /stop aside, a reference leaves a queue in a step
\* of play_next, and then it is handed to the player in that step, or the step sends
\* the message that a track failed, or it is the head that play_next removes right
\* after it has sent that message or the message of its outer handler.
C34_NoSilentDrop ==
    \A t \in Tasks :
        task[t].pc \in {"play_check", "callback", "advance", "resolving", "sleep", "drop", "outer"} =>
            \A o \in PreloadOutcomes :
                LET g == task[t].g
                    r == task_step(Store, task[t], o, FALSE)
                    new == Removes(r.S, g)
                IN  \A i \in DOMAIN new :
                        \/ r.S.ret = "playing" /\ r.S.playing[g][1] = new[i]
                        \/ \E j \in DOMAIN r.S.sent : r.S.sent[j] = MsgFailedAfter
                        \/ i = 1 /\ task[t].pc \in {"drop", "outer"}

\* the calls of _preload_song(url) that await the resolver: the background tasks and
\* the play_next invocations
InFlight(url) ==
    preloads[url] + Cardinality({t \in Tasks : task[t].pc = "resolving" /\ task[t].url = url})

\* C35: at most one resolution is in flight per reference, and only one audio entry is
\* ever made for a reference.
C35_OneResolutionInFlight ==
    \A url \in Refs : InFlight(url) <= 1 /\ audio_cache[url] <= 1

\* C36: after /stop the queue of the guild stays empty until its next /play: while the
\* guild has no voice client (/stop has disconnected it and no /play has connected it
\* again) and its queue is empty, an expansion task that gets the resolver's answer
\* appends nothing, and neither does a background preload.
C36_EmptyAfterStop ==
    \A g \in AllGuilds :
        (~VcPresent(Store, g) /\ Queue(g) = <<>>) =>
            /\ \A k \in DOMAIN expanding[g] :
                Started(expanding[g][k]) =>
                    \A o \in ExpandOutcomes :
                        expand_resolved(Store, g, k, o).queues = queues
            /\ \A url \in Refs, o \in PreloadOutcomes :
                preload_store(Store, url, o).queues = queues

\* the tasks of guild g whose loop iterates the list that pending_playlists names
LiveTasks(g) == {k \in DOMAIN expanding[g] : expanding[g][k].live}

\* C37: each pending playlist query is expanded exactly once: no two tasks iterate the
\* same list of pending queries, as each of them awaits every query of the list from
\* its position to the end and appends the entries of each.
C37_ExpandedOnce == \A g \in GuildIds : Cardinality(LiveTasks(g)) <= 1

\* the replies of /play that tell a resolution failure
FailureReplies ==
    {MsgNoSongInfo, MsgNoAlternative, MsgNoAudio, MsgNoTrack}
        \cup {MsgResolverError(c) : c \in ErrorClasses}

\* store S was left by a step of /play that ended the command with such a reply
EndsInFailure(r) ==
    r.tk = IdleTask /\ r.S.sent # <<>> /\ r.S.sent[Len(r.S.sent)] \in FailureReplies

\* the queue of guild g in store S
QueueIn(S, g) == IF g \in DOMAIN S.queues THEN S.queues[g] ELSE <<>>

\* C38: a /play that ends with a resolution-failure reply leaves the queue of the guild
\* and the title cache as they were: this holds for the step that ends it, be it the
\* one up to the resolver or the one that gets the resolver's answer, and the steps
\* before it have written neither.
C38_FailureLeavesQueue ==
    /\ \A g \in GuildIds, pre \in StreamingResults :
        LET r == play_begin(Store, [IdleTask EXCEPT !.g = g], pre)
        IN  QueueIn(r.S, g) = Queue(g) /\ r.S.title_cache = title_cache
    /\ \A t \in Tasks :
        task[t].pc = "play" =>
            \A res \in ResolverResults \cup AltResults, rj \in BOOLEAN :
                LET r == play_resolved(Store, task[t], res, rj)
                IN  EndsInFailure(r) =>
                        /\ QueueIn(r.S, task[t].g) = Queue(task[t].g)
                        /\ r.S.title_cache = title_cache

\* ------------------------------------------------ the two engines side by side

\* The newer engine runs on the shared state, the older one on old.store; both get the
\* same commands and playback completions, one at a time, each handled until no
\* coroutine of it is left, and every resolver and player call succeeds.
MaxEquivPlays == 4          \* single-track play commands of a run

RECURSIVE run_new(_, _)
\* the coroutine of r of the newer engine, until it has returned
run_new(r, outcome) ==
    IF r.tk.pc = "idle" THEN r.S ELSE run_new(task_step(r.S, r.tk, outcome, FALSE), outcome)

RECURSIVE run_old(_, _)
\* the coroutine of r of the older engine, until it has returned
run_old(r, outcome) ==
    IF r.tk.pc = "idle" THEN r.S ELSE run_old(old_task_step(r.S, r.tk, outcome, FALSE), outcome)

\* the coroutine the player's callback submitted in S, if any, as the next to run
Submitted(S) ==
    IF S.scheduled = <<>>
    THEN Result(S, IdleTask)
    ELSE Result([S EXCEPT !.scheduled = <<>>], S.scheduled[1])

\* /play of a single track ref in guild g, up to the is_playing() check
play_track(S, g, ref) ==
    LET r == play_begin(S, [IdleTask EXCEPT !.g = g], [kind |-> "direct"])
    IN  play_single(r.S, r.tk, [kind |-> "track", ref |-> ref])

\* the reference handed to the player while S was produced
Handed(S, g) == IF S.ret = "playing" THEN <<S.playing[g][1]>> ELSE <<>>

\* S without what its handlers put out
Kept(S) == [S EXCEPT !.sent = <<>>, !.ret = "", !.scheduled = <<>>, !.requested = <<>>]

\* both engines have handled an event: N is the newer engine's store, O the older's
Both(N, O, g) ==
    /\ InstallStore(N)
    /\ old' = [old EXCEPT !.store = Kept(O),
                          !.handed = @ \o Handed(O, g),
                          !.new_handed = @ \o Handed(N, g)]
    /\ UNCHANGED <<task, out>>

EquivPlay(g) ==
    /\ Len(appended[g]) < MaxEquivPlays
    /\ \E ref \in Refs :
        Both(run_new(play_track(Store, g, ref), "ok"),
             run_old(play_track(old.store, g, ref), "ok"), g)

EquivSkip(g) ==
    Both(run_new(Submitted(skip(Store, g)), "ok"),
         run_old(Submitted(skip(old.store, g)), "ok"), g)

EquivPlaybackEnds(g) ==
    /\ is_playing(Store, g)
    /\ Both(run_new(Submitted(player_ends(Store, g, FALSE)), "ok"),
            IF is_playing(old.store, g)
            THEN run_old(Submitted(player_ends(old.store, g, FALSE)), "ok")
            ELSE old.store, g)

\* a background _preload_song(url) of the newer engine gets the resolver's answer
EquivPreloadDone(url) ==
    /\ preloads[url] > 0
    /\ InstallStore([preload_store(Store, url, "ok") EXCEPT !.preloads[url] = @ - 1])
    /\ UNCHANGED <<task, out, old>>

InitEquiv ==
    /\ queues = [g \in {} |-> <<>>]
    /\ title_cache = {}
    /\ audio_cache = [r \in Refs |-> 0]
    /\ vc = [g \in AllGuilds |-> "none"]
    /\ playing = [g \in AllGuilds |-> NoSrc]
    /\ preloads = [r \in Refs |-> 0]
    /\ task = [t \in Tasks |-> IdleTask]
    /\ appended = [g \in AllGuilds |-> <<>>]
    /\ removed = [g \in AllGuilds |-> <<>>]
    /\ cache_first = NoRef
    /\ pending_playlists = [g \in AllGuilds |-> <<>>]
    /\ paused = [g \in AllGuilds |-> FALSE]
    /\ expanding = [g \in AllGuilds |-> <<>>]
    /\ out = NoOut
    /\ old = [kind |-> "old", store |-> Store, handed |-> <<>>, new_handed |-> <<>>]

NextEquiv ==
    \/ \E g \in GuildIds : EquivPlay(g)
    \/ \E g \in GuildIds : EquivSkip(g)
    \/ \E g \in GuildIds : EquivPlaybackEnds(g)
    \/ \E url \in Refs : EquivPreloadDone(url)

EquivSpec == InitEquiv /\ [][NextEquiv]_vars

RECURSIVE Attempts(_, _)
\* the _preload_song calls play_next of the newer engine makes from r on for the head
\* it read, the resolver answering outcome, until it gives the head up or plays it
Attempts(r, outcome) ==
    IF r.tk.pc = "resolving"
    THEN 1 + Attempts(task_step(r.S, r.tk, outcome, FALSE), outcome)
    ELSE IF r.tk.pc = "sleep"
    THEN Attempts(task_step(r.S, r.tk, outcome, FALSE), outcome)
    ELSE 0

\* the same for play_next of the older engine
OldAttempts(r) == IF r.tk.pc = "old_resolving" THEN 1 ELSE 0

\* the head of g's queue in S is still to be resolved when the track playing ends
HeadUnresolved(S, g) ==
    /\ is_playing(S, g)
    /\ QueueIn(S, g) # <<>>
    /\ S.audio_cache[QueueIn(S, g)[1]] = 0

\* the reference the player of g plays in S
NowPlaying(S, g) == IF has_player(S, g) THEN S.playing[g][1] ELSE NoRef

====
